---- MODULE Spec2Model ----
(***************************************************************************)
(* State-machine model of the WiFi load-balancing simulator                *)
(* (WifiLoadBalancing/src): WifiSimulator, GreedyRedistributor,            *)
(* UserPriorityQueue, MCMFEngine/GraphModel, the cost and capacity         *)
(* functions, APKiller and the FastAPI host of main.py.                    *)
(*                                                                         *)
(* Number representation.  The code works on Python floats; the model      *)
(* works on integers:                                                      *)
(*   - positions are integers, distances are compared through their       *)
(*     squares (math.dist(p, q) > r  <=>  D2(p, q) > r * r);                *)
(*   - an AP load is kept in hundredths of a unit (load 5 is 500), the     *)
(*     products with 0.82 and 0.40 are rounded down to a hundredth;       *)
(*   - log10 is tabulated in units of 1e-5 for the distances of the       *)
(*     model; an RSSI before int() is kept in units of 1e-5 dB;           *)
(*   - a capacity is returned in hundredths and a cost in thousandths,    *)
(*     rounded as the code rounds the float: they are computed on         *)
(*     decimals of 20 places (ln and log10 tabulated to 20 places) and,   *)
(*     where round() meets an exact half, in binary64 arithmetic;         *)
(*   - inf, -inf and nan are the numbers Inf, -Inf and NaN.               *)
(* None is the string "none".                                              *)
(***************************************************************************)
EXTENDS Integers, Sequences, FiniteSets, TLC

VARIABLES
    aps,            \* WifiSimulator.aps: sequence of AP records
    clients,        \* WifiSimulator.clients: sequence of user records
    assignments,    \* WifiSimulator.assignments: dict user id -> AP id / none
    tick,           \* WifiSimulator.tick
    current_band,   \* WifiSimulator.current_band
    ap_killer,      \* WifiSimulator.ap_killer: the APKiller fields
    glog,           \* what the last step()/redistribute() did: detection, pops, moves,
                    \* stops, and the APs whose load the AP-killer raised
    last,           \* the operation that produced this state
    drawn,          \* how many user ids add_user_to_floor has drawn so far
    pc,             \* position of the executor thread inside step()
    host,           \* the host (main.py): sim.ready, requests served, snapshots, and
                    \* the local variables of the thread inside step()
    queue           \* a UserPriorityQueue of its own, what its last pop returned, and
                    \* how many pushes it has seen

vars == <<aps, clients, assignments, tick, current_band, ap_killer, glog, last, drawn,
         pc, host, queue>>

None == "none"

-----------------------------------------------------------------------------
(* Bounds of the model *)

MaxUsers == 38      \* add_user_to_floor is not taken beyond this many users
MaxAdded == 2       \* add_user_to_floor is not taken more often than this
MaxRemoved == 1     \* remove_user_from_floor is not taken more often than this
MaxMovers == 1      \* users of the list whose redirect draw in move_users is followed
MaxTick == 2        \* step() is not called more often than this
MaxCalls == 3       \* a caller of the engine runs at most this many operations other than step()
MaxInputUsers == 3  \* users in the inputs of the stand-alone calls
MaxHostTick == 1    \* ticks the host's simulator_loop is followed for
MaxHostCalls == 1   \* requests the handlers of main.py are followed for, beside
                    \* those to /apkiller/deploy and /apkiller/floor/{level}
MaxHostDeploys == 1 \* requests to /apkiller/deploy followed
MaxHostFloors == 1  \* requests to /apkiller/floor/{level} followed

-----------------------------------------------------------------------------
(* Program constants *)

USE_MCMF == FALSE
MCMF_MAX_USERS == 120
MCMF_EVERY_N_TICKS == 10
MAX_FLOOR_CAP == 90
KILLER_SPEED == 4
KILLER_RADIUS == 180
KILLER_LOAD == 10
LOAD_MAX == 100
LOAD_DECAY == 82           \* 0.82, in hundredths
LOAD_GAIN_WEIGHT == 40     \* 0.40, in hundredths
RSSI_FLOOR == -95
RSSI_CEIL == -40
DEFAULT_PATHLOSS == 22
DEFAULT_COVERAGE == 200

Bands == {"2.4", "5", "6"}

band_coverage(b) == CASE b = "2.4" -> 800 [] b = "5" -> 320 [] b = "6" -> 120

\* band_pathloss.get(band, 22)
band_pathloss(b) == CASE b = "2.4" -> 20 [] b = "5" -> 22 [] b = "6" -> 24 [] OTHER -> DEFAULT_PATHLOSS

-----------------------------------------------------------------------------
(* Inputs: aps.json, users.json, campus_layout.json *)

\* campus_layout.json: the levels of the layout
Floors == {7, 8}

\* campus_layout.json: the room of a floor the users are in, [x1, x2] x [y1, y2]
Room(f) == [x |-> 0, y |-> -50, width |-> 400, height |-> 100]

\* airtime_usage of an added user: random.randint(1, 5), one of its values
AirtimeValues == {5}

\* generate_users: f"User_{len(users)+1}"
UserId(n) == "User_" \o ToString(n)

\* the ids the n-th call of add_user_to_floor can draw:
\* f"User_{random.randint(100000, 999999)}", with nothing that keeps a number
\* from being drawn again; the draw is one of the ids drawn before or a new
\* one (no draw gives an id of users.json, which are User_1, User_2, ...)
AddedIds(n) == {"User_" \o ToString(100000 + k) : k \in 1..n}

\* generate_aps: the entry written for one AP of the layout, with the
\* airtime_capacity drawn (random.randint(90, 140)), after __init__'s
\* setdefault calls (max_users from max_clients; no "band" key: band is none)
generate_ap(id, floor, x, y, airtime_capacity) ==
    [id |-> id, floor |-> floor, x |-> x, y |-> y,
     airtime_capacity |-> airtime_capacity,
     max_users |-> LET derived == (8 * airtime_capacity) \div 30      \* int(0.8 * cap / 3)
                   clamped == IF derived <= 30 THEN derived ELSE 30
               IN  IF clamped >= 18 THEN clamped ELSE 18,
     interference_score |-> 10, load |-> 0,
     connected_clients |-> << >>, user_count |-> 0, band |-> None,
     coverage_radius |-> DEFAULT_COVERAGE]

\* aps.json: the layout has two APs on floor 7 and one on floor 8; the
\* capacities are three of the values random.randint(90, 140) can give
InitAps ==
    << generate_ap("AP_7A", 7, 0, 0, 90),
       generate_ap("AP_7B", 7, 300, 0, 140),
       generate_ap("AP_8A", 8, 140, 0, 90) >>

ApIds == {InitAps[i].id : i \in 1..Len(InitAps)}

-----------------------------------------------------------------------------
(* Arithmetic helpers *)

\* a local variable of the code: v is computed once, F works on its value
Once(v, F(_)) == CHOOSE out \in {F(x) : x \in {v}} : TRUE

Max(a, b) == IF a >= b THEN a ELSE b
Min(a, b) == IF a <= b THEN a ELSE b
Abs(a) == IF a < 0 THEN -a ELSE a

\* int(v) for v given in units of 1/unit: truncation towards zero
TruncDiv(v, unit) == IF v >= 0 THEN v \div unit ELSE -((-v) \div unit)

\* square of math.dist((x1, y1), (x2, y2))
D2(x1, y1, x2, y2) == (x1 - x2) * (x1 - x2) + (y1 - y2) * (y1 - y2)

\* 1e5 * log10(max(dist, 1e-3)), by the square of dist
Log10E5(d2) ==
    CASE d2 = 0 -> -300000 [] d2 = 2500 -> 169897 [] d2 = 12100 -> 204139
      [] d2 = 19600 -> 214613 [] d2 = 19881 -> 214922 [] d2 = 20164 -> 215229
      [] d2 = 20449 -> 215534 [] d2 = 20736 -> 215836 [] d2 = 21025 -> 216137
      [] d2 = 21316 -> 216435 [] d2 = 21609 -> 216732 [] d2 = 21904 -> 217026
      [] d2 = 22201 -> 217319 [] d2 = 22500 -> 217609 [] d2 = 22801 -> 217898
      [] d2 = 23104 -> 218184 [] d2 = 23409 -> 218469 [] d2 = 23716 -> 218752
      [] d2 = 24025 -> 219033 [] d2 = 24336 -> 219312 [] d2 = 24649 -> 219590
      [] d2 = 24964 -> 219866 [] d2 = 25281 -> 220140 [] d2 = 25600 -> 220412
      [] d2 = 62500 -> 239794 [] d2 = 90000 -> 247712 [] d2 = 360000 -> 277815
      [] d2 = 1 -> 0 [] d2 = 4 -> 30103 [] d2 = 9 -> 47712
      [] d2 = 16 -> 60206 [] d2 = 25 -> 69897 [] d2 = 36 -> 77815
      [] d2 = 49 -> 84510 [] d2 = 64 -> 90309 [] d2 = 81 -> 95424
      [] d2 = 100 -> 100000 [] d2 = 121 -> 104139 [] d2 = 144 -> 107918
      [] d2 = 169 -> 111394 [] d2 = 196 -> 114613 [] d2 = 225 -> 117609
      [] d2 = 256 -> 120412 [] d2 = 289 -> 123045 [] d2 = 324 -> 125527
      [] d2 = 361 -> 127875 [] d2 = 400 -> 130103

\* math.dist for the distances of the model (all are whole numbers)
Dist(d2) ==
    CASE d2 = 0 -> 0 [] d2 = 2500 -> 50 [] d2 = 12100 -> 110
      [] d2 = 19600 -> 140 [] d2 = 19881 -> 141 [] d2 = 20164 -> 142
      [] d2 = 20449 -> 143 [] d2 = 20736 -> 144 [] d2 = 21025 -> 145
      [] d2 = 21316 -> 146 [] d2 = 21609 -> 147 [] d2 = 21904 -> 148
      [] d2 = 22201 -> 149 [] d2 = 22500 -> 150 [] d2 = 22801 -> 151
      [] d2 = 23104 -> 152 [] d2 = 23409 -> 153 [] d2 = 23716 -> 154
      [] d2 = 24025 -> 155 [] d2 = 24336 -> 156 [] d2 = 24649 -> 157
      [] d2 = 24964 -> 158 [] d2 = 25281 -> 159 [] d2 = 25600 -> 160
      [] d2 = 62500 -> 250 [] d2 = 90000 -> 300 [] d2 = 360000 -> 600
      [] d2 = 1 -> 1 [] d2 = 4 -> 2 [] d2 = 9 -> 3
      [] d2 = 16 -> 4 [] d2 = 25 -> 5 [] d2 = 36 -> 6
      [] d2 = 49 -> 7 [] d2 = 64 -> 8 [] d2 = 81 -> 9
      [] d2 = 100 -> 10 [] d2 = 121 -> 11 [] d2 = 144 -> 12
      [] d2 = 169 -> 13 [] d2 = 196 -> 14 [] d2 = 225 -> 15
      [] d2 = 256 -> 16 [] d2 = 289 -> 17 [] d2 = 324 -> 18
      [] d2 = 361 -> 19 [] d2 = 400 -> 20

(* Decimal fractions: the float results that are no whole number of the    *)
(* model's units are carried to 20 decimals, as <<whole, d1, ..., d5>> with *)
(* the value whole + d1 / 1e4 + d2 / 1e8 + ... + d5 / 1e20, every d in      *)
(* 0 .. 9999.  The values are not negative.                                 *)

Whole(i) == <<i, 0, 0, 0, 0, 0>>

\* the digits 1 .. n of x * k, with the carry that comes out of digit n + 1
RECURSIVE TimesLoop(_, _, _, _)
TimesLoop(x, k, n, carry) ==
    IF n = 1 THEN <<x[1] * k + carry>>
    ELSE Once(x[n] * k + carry, LAMBDA p :
            Append(TimesLoop(x, k, n - 1, p \div 10000), p % 10000))

\* x * k for a whole number k in 0 .. 200000
Times(x, k) == TimesLoop(x, k, 6, 0)

\* the digits n .. 6 of x / k, with the remainder left by digit n - 1
RECURSIVE OverLoop(_, _, _, _)
OverLoop(x, k, n, rem) ==
    IF n > 6 THEN << >>
    ELSE Once(rem * 10000 + x[n], LAMBDA cur :
            <<cur \div k>> \o OverLoop(x, k, n + 1, cur % k))

\* x / k for a whole number k in 1 .. 200000, cut after 20 decimals
Over(x, k) == OverLoop(x, k, 1, 0)

\* the digits 1 .. n of x + y, with the carry that comes out of digit n + 1
RECURSIVE PlusLoop(_, _, _, _)
PlusLoop(x, y, n, carry) ==
    IF n = 1 THEN <<x[1] + y[1] + carry>>
    ELSE Once(x[n] + y[n] + carry, LAMBDA p :
            Append(PlusLoop(x, y, n - 1, p \div 10000), p % 10000))

Sum(x, y) == PlusLoop(x, y, 6, 0)

\* x < y
Less(x, y) == \E n \in 1..6 : x[n] < y[n] /\ \A m \in 1..(n - 1) : x[m] = y[m]

\* math.log(1 + users)
Ln(n) ==
    CASE n = 0 -> <<0, 0, 0, 0, 0, 0>> [] n = 1 -> <<0, 6931, 4718, 559, 9453, 941>>
      [] n = 2 -> <<1, 986, 1228, 8668, 1096, 9139>> [] n = 3 -> <<1, 3862, 9436, 1119, 8906, 1883>>
      [] n = 4 -> <<1, 6094, 3791, 2434, 1003, 7460>> [] n = 5 -> <<1, 7917, 5946, 9228, 550, 81>>
      [] n = 6 -> <<1, 9459, 1014, 9055, 3133, 510>> [] n = 7 -> <<2, 794, 4154, 1679, 8359, 2825>>
      [] n = 8 -> <<2, 1972, 2457, 7336, 2193, 8279>> [] n = 9 -> <<2, 3025, 8509, 2994, 456, 8401>>
      [] n = 10 -> <<2, 3978, 9527, 2798, 3705, 4406>> [] n = 11 -> <<2, 4849, 664, 9788, 3, 1022>>
      [] n = 12 -> <<2, 5649, 4935, 7461, 5367, 3605>> [] n = 13 -> <<2, 6390, 5732, 9615, 2586, 1452>>
      [] n = 14 -> <<2, 7080, 5020, 1102, 2100, 6599>> [] n = 15 -> <<2, 7725, 8872, 2239, 7812, 3766>>
      [] n = 16 -> <<2, 8332, 1334, 4056, 2160, 8024>> [] n = 17 -> <<2, 8903, 7175, 7896, 1646, 9220>>
      [] n = 18 -> <<2, 9444, 3897, 9166, 4404, 6000>> [] n = 19 -> <<2, 9957, 3227, 3553, 9909, 9343>>
      [] n = 20 -> <<3, 445, 2243, 7723, 4229, 9650>> [] n = 21 -> <<3, 910, 4245, 3358, 3158, 5347>>
      [] n = 22 -> <<3, 1354, 9421, 5929, 1496, 9080>> [] n = 23 -> <<3, 1780, 5383, 347, 9456, 1964>>
      [] n = 24 -> <<3, 2188, 7582, 4868, 2007, 4920>> [] n = 25 -> <<3, 2580, 9653, 8021, 4820, 4547>>
      [] n = 26 -> <<3, 2958, 3686, 6004, 3290, 7418>> [] n = 27 -> <<3, 3322, 451, 175, 2039, 2393>>
      [] n = 28 -> <<3, 3672, 9582, 9986, 4740, 2718>> [] n = 29 -> <<3, 4011, 9738, 1662, 1553, 7541>>
      [] n = 30 -> <<3, 4339, 8720, 4485, 1462, 4592>> [] n = 31 -> <<3, 4657, 3590, 2799, 7265, 4708>>
      [] n = 32 -> <<3, 4965, 756, 1466, 4802, 3545>> [] n = 33 -> <<3, 5263, 6052, 4616, 1613, 8966>>
      [] n = 34 -> <<3, 5553, 4806, 1489, 4136, 7970>> [] n = 35 -> <<3, 5835, 1893, 8456, 1100, 162>>
      [] n = 36 -> <<3, 6109, 1791, 2644, 2244, 4436>> [] n = 37 -> <<3, 6375, 8615, 9726, 3857, 6942>>
      [] n = 38 -> <<3, 6635, 6164, 6129, 6464, 2744>> [] n = 39 -> <<3, 6888, 7945, 4113, 9363, 285>>
      [] n = 40 -> <<3, 7135, 7206, 6704, 3078, 386>> [] n = 41 -> <<3, 7376, 6961, 8283, 3683, 591>>
      [] n = 42 -> <<3, 7612, 11, 5693, 5624, 2347>> [] n = 43 -> <<3, 7841, 8963, 3918, 2611, 6289>>
      [] n = 44 -> <<3, 8066, 6248, 9770, 3197, 5739>> [] n = 45 -> <<3, 8286, 4139, 6489, 950, 22>>

\* 1 / (4 + math.log(1 + users)): load / dynamic_capacity(ap) is
\* 4 * load / (base * (4 + log(1 + users)))
InvCapacity(n) ==
    CASE n = 0 -> <<0, 2500, 0, 0, 0, 0>> [] n = 1 -> <<0, 2130, 7663, 3126, 3211, 6061>>
      [] n = 2 -> <<0, 1961, 3179, 8886, 2467, 5992>> [] n = 3 -> <<0, 1856, 5639, 6207, 8160, 8073>>
      [] n = 4 -> <<0, 1782, 7098, 1087, 6702, 5075>> [] n = 5 -> <<0, 1726, 5910, 3906, 6895, 7318>>
      [] n = 6 -> <<0, 1681, 8283, 707, 4031, 5214>> [] n = 7 -> <<0, 1644, 8879, 2785, 3461, 7113>>
      [] n = 8 -> <<0, 1613, 6255, 6338, 558, 4142>> [] n = 9 -> <<0, 1586, 6505, 3346, 3800, 6161>>
      [] n = 10 -> <<0, 1563, 140, 1845, 6433, 3468>> [] n = 11 -> <<0, 1542, 422, 4363, 4596, 1089>>
      [] n = 12 -> <<0, 1523, 2409, 9631, 2375, 4105>> [] n = 13 -> <<0, 1506, 2379, 3462, 2491, 3635>>
      [] n = 14 -> <<0, 1490, 7461, 4831, 5479, 8974>> [] n = 15 -> <<0, 1476, 5402, 7287, 4103, 1243>>
      [] n = 16 -> <<0, 1463, 4403, 3128, 9871, 5665>> [] n = 17 -> <<0, 1451, 3005, 327, 6951, 9595>>
      [] n = 18 -> <<0, 1440, 11, 3328, 938, 7983>> [] n = 19 -> <<0, 1429, 4429, 2448, 1695, 8555>>
      [] n = 20 -> <<0, 1419, 5426, 4301, 1539, 3509>> [] n = 21 -> <<0, 1410, 2298, 8732, 2702, 8294>>
      [] n = 22 -> <<0, 1401, 4446, 2280, 9192, 2238>> [] n = 23 -> <<0, 1393, 1352, 7543, 954, 589>>
      [] n = 24 -> <<0, 1385, 2572, 3985, 3211, 6136>> [] n = 25 -> <<0, 1377, 7716, 9917, 9678, 5943>>
      [] n = 26 -> <<0, 1370, 6446, 8184, 5339, 1632>> [] n = 27 -> <<0, 1363, 8463, 108, 4835, 5041>>
      [] n = 28 -> <<0, 1357, 3501, 3643, 6473, 1205>> [] n = 29 -> <<0, 1351, 1327, 2681, 7536, 5801>>
      [] n = 30 -> <<0, 1345, 1731, 5202, 8927, 5837>> [] n = 31 -> <<0, 1339, 4526, 8493, 2224, 6664>>
      [] n = 32 -> <<0, 1333, 9545, 54, 6622, 8183>> [] n = 33 -> <<0, 1328, 6634, 3132, 1607, 1090>>
      [] n = 34 -> <<0, 1323, 5657, 6012, 3123, 439>> [] n = 35 -> <<0, 1318, 6490, 4421, 7439, 3871>>
      [] n = 36 -> <<0, 1313, 9019, 6488, 4778, 447>> [] n = 37 -> <<0, 1309, 3141, 9834, 3295, 2849>>
      [] n = 38 -> <<0, 1304, 8763, 448, 5699, 8921>> [] n = 39 -> <<0, 1300, 5796, 3057, 9264, 4782>>
      [] n = 40 -> <<0, 1296, 4162, 2759, 5133, 9940>> [] n = 41 -> <<0, 1292, 3787, 7724, 4632, 2630>>
      [] n = 42 -> <<0, 1288, 4605, 2813, 1398, 6829>> [] n = 43 -> <<0, 1284, 6552, 3969, 5950, 8894>>
      [] n = 44 -> <<0, 1280, 9571, 3284, 6947, 3188>> [] n = 45 -> <<0, 1277, 3608, 4635, 1282, 9418>>

-----------------------------------------------------------------------------
(* cost_function.py: dynamic_capacity *)

\* floor(100 * boosted) for the boosted of line 36,
\*   base * (1 + 0.25 * log(1 + users))
Boosted(ap) ==
    LET base == ap.airtime_capacity
    IN  IF base >= 0 THEN 100 * base + Times(Ln(ap.user_count), 25 * base)[1]
        ELSE IF ap.user_count = 0 THEN 100 * base
        ELSE 100 * base - Times(Ln(ap.user_count), 25 * (-base))[1] - 1

\* the boosted value returned as it is, without max(base, boosted)
dynamic_capacity_NoFloor(ap) == Boosted(ap)

\* floor(100 * dynamic_capacity(ap))
dynamic_capacity(ap) == Max(100 * ap.airtime_capacity, Boosted(ap))

\* dynamic_capacity(ap) is a whole number of hundredths when it is the base
\* itself: the logarithm term vanishes (no users, base 0) or the boosted
\* value lies below the base (negative base); otherwise it lies strictly
\* above its floor
CapacityIsExact(ap) == ap.airtime_capacity <= 0 \/ ap.user_count = 0

\* the comparison with the static airtime_capacity instead
LoadAbove_Static(ap) == ap.load > 100 * ap.airtime_capacity

\* ap["load"] > dynamic_capacity(ap)
LoadAbove(ap) == ap.load > dynamic_capacity(ap)

\* a capacity test that lets every AP pass (line 61 never skips)
LoadAtLeast_Never(ap) == FALSE

\* ap["load"] >= dynamic_capacity(ap)
LoadAtLeast(ap) ==
    IF CapacityIsExact(ap) THEN ap.load >= dynamic_capacity(ap)
    ELSE ap.load > dynamic_capacity(ap)

-----------------------------------------------------------------------------
(* Sequence helpers *)


Indices(s) == [i \in 1..Len(s) |-> i]

\* s[lo] + ... + s[hi]
RECURSIVE SumRange(_, _, _)
SumRange(s, lo, hi) ==
    IF lo > hi THEN 0
    ELSE IF lo = hi THEN s[lo]
    ELSE SumRange(s, lo, (lo + hi) \div 2) + SumRange(s, (lo + hi) \div 2 + 1, hi)

SeqSum(s) == SumRange(s, 1, Len(s))

InSeq(e, s) == \E i \in 1..Len(s) : s[i] = e

\* list.remove(e): drops the first occurrence
RemoveFirst(s, e) ==
    LET k == CHOOSE i \in 1..Len(s) : s[i] = e /\ \A j \in 1..(i - 1) : s[j] # e
    IN  [i \in 1..(Len(s) - 1) |-> IF i < k THEN s[i] ELSE s[i + 1]]

RemoveAt(s, k) == [i \in 1..(Len(s) - 1) |-> IF i < k THEN s[i] ELSE s[i + 1]]

\* index of the first AP of the list with this id, 0 when there is none
ApIndex(apl, aid) ==
    IF \E j \in 1..Len(apl) : apl[j].id = aid
    THEN CHOOSE j \in 1..Len(apl) :
            apl[j].id = aid /\ \A k \in 1..(j - 1) : apl[k].id # aid
    ELSE 0

-----------------------------------------------------------------------------
(* simulator.py: update_rssi, update_ap_load *)

\* the rssi of line 285 without the clamp of line 286
BandRssi_NoClamp(u, ap, band) ==
    LET apband == IF ap.band = None THEN band ELSE ap.band
        loss == band_pathloss(apband)
    IN  -3000000 - loss * Log10E5(D2(u.x, u.y, ap.x, ap.y))

\* clamped rssi of one AP for one user, in 1e-5 dB (simulator.py:282-286)
BandRssi(u, ap, band) ==
    LET apband == IF ap.band = None THEN band ELSE ap.band
        loss == band_pathloss(apband)
        rssi == -3000000 - loss * Log10E5(D2(u.x, u.y, ap.x, ap.y))
    IN  Max(RSSI_FLOOR * 100000, Min(RSSI_CEIL * 100000, rssi))

\* lines 263-264: (best_ap, best_rssi) before the loop over floor_aps
NoBest == [ap |-> None, rssi |-> RSSI_FLOOR * 100000]

\* one turn of the loop over floor_aps (lines 270-290): the running
\* (best_ap, best_rssi) after it
BestTurn(u, ap, band, best) ==
    LET cov == band_coverage(band)
    IN  IF D2(u.x, u.y, ap.x, ap.y) > cov * cov THEN best
        ELSE IF BandRssi(u, ap, band) > best.rssi
             THEN [ap |-> ap.id, rssi |-> BandRssi(u, ap, band)]
             ELSE best

\* the loop over floor_aps: the running (best_ap, best_rssi)
RECURSIVE BestAp(_, _, _, _, _)
BestAp(u, floor_aps, band, i, best) ==
    IF i > Len(floor_aps) THEN best
    ELSE BestAp(u, floor_aps, band, i + 1, BestTurn(u, floor_aps[i], band, best))

\* a disconnection that keeps the stale assignment
Disconnected_KeepAssigned(u) ==
    [u EXCEPT !.nearest_ap = None, !.RSSI = RSSI_FLOOR]

\* lines 257-260 and 297-300
Disconnected(u) ==
    [u EXCEPT !.nearest_ap = None, !.connected_ap = None,
              !.assigned_ap = None, !.RSSI = RSSI_FLOOR]

\* update_rssi without the same-floor filter of line 253
UpdateRssiOne_AnyFloor(u, apl, band) ==
    Once(BestAp(u, apl, band, 1, [ap |-> None, rssi |-> RSSI_FLOOR * 100000]),
         LAMBDA best :
            IF best.ap = None THEN Disconnected(u)
            ELSE [u EXCEPT !.nearest_ap = best.ap, !.assigned_ap = best.ap,
                           !.connected_ap = best.ap,
                           !.RSSI = TruncDiv(best.rssi, 100000)])

UpdateRssiOne(u, apl, band) ==
    Once(SelectSeq(apl, LAMBDA ap : ap.floor = u.floor), LAMBDA floor_aps :
        IF floor_aps = << >> THEN Disconnected(u)
        ELSE Once(BestAp(u, floor_aps, band, 1,
                         [ap |-> None, rssi |-> RSSI_FLOOR * 100000]),
                  LAMBDA best :
                     IF best.ap = None THEN Disconnected(u)
                     ELSE [u EXCEPT !.nearest_ap = best.ap, !.assigned_ap = best.ap,
                                    !.connected_ap = best.ap,
                                    !.RSSI = TruncDiv(best.rssi, 100000)]))

\* line 279 indexes band_coverage with current_band and raises KeyError for
\* a band that is no key of it: the place in cl of the first user the loop
\* reaches that line for (the first user with an AP on its floor), 0 when
\* update_rssi returns
update_rssi_raises_at(cl, apl, band) ==
    IF band \in Bands THEN 0
    ELSE LET reach == {i \in 1..Len(cl) : \E j \in 1..Len(apl) : apl[j].floor = cl[i].floor}
         IN  IF reach = {} THEN 0 ELSE CHOOSE i \in reach : \A k \in reach : i <= k

\* the user list as update_rssi leaves it, when it returns and when it
\* raises: the users before the one it raises at have been written
update_rssi(cl, apl, band) ==
    Once(update_rssi_raises_at(cl, apl, band), LAMBDA stop :
        [i \in 1..Len(cl) |->
            IF stop # 0 /\ i >= stop THEN cl[i] ELSE UpdateRssiOne(cl[i], apl, band)])

\* user_count: the users whose assigned_ap names this AP (first AP of that id)
update_ap_load(apl, cl) ==
    [j \in 1..Len(apl) |->
        [apl[j] EXCEPT !.user_count =
            Cardinality({i \in 1..Len(cl) :
                cl[i].assigned_ap # None /\ ApIndex(apl, cl[i].assigned_ap) = j})]]

-----------------------------------------------------------------------------
(* priority_queue.py: UserPriorityQueue *)

EmptyQueue == [heap |-> << >>, counter |-> 0]

\* the order heapq puts on the entries (priority, count, user): by priority,
\* then by count; two entries equal in both would have their users compared
EntryLess(a, b) ==
    a.priority < b.priority \/ (a.priority = b.priority /\ a.count < b.count)

\* heapq._siftdown(heap, startpos, pos) with newitem = heap[pos]; positions
\* count from 0 as in heapq, the sequence from 1
RECURSIVE siftdown(_, _, _, _)
siftdown(heap, startpos, pos, newitem) ==
    IF pos > startpos /\ EntryLess(newitem, heap[((pos - 1) \div 2) + 1])
    THEN \* the parent moves down, the new item goes on towards the root
         siftdown([heap EXCEPT ![pos + 1] = heap[((pos - 1) \div 2) + 1]],
                  startpos, (pos - 1) \div 2, newitem)
    ELSE [heap EXCEPT ![pos + 1] = newitem]

\* the loop of heapq._siftup: the smaller child bubbles up until a leaf is hit;
\* the result is the heap and the leaf position reached
RECURSIVE siftup_loop(_, _)
siftup_loop(heap, pos) ==
    IF 2 * pos + 1 >= Len(heap) THEN [heap |-> heap, pos |-> pos]
    ELSE LET childpos == 2 * pos + 1
             rightpos == childpos + 1
             smaller == IF rightpos < Len(heap)
                           /\ ~EntryLess(heap[childpos + 1], heap[rightpos + 1])
                        THEN rightpos ELSE childpos
         IN  siftup_loop([heap EXCEPT ![pos + 1] = heap[smaller + 1]], smaller)

\* heapq._siftup(heap, 0)
siftup(heap) ==
    Once(siftup_loop(heap, 0), LAMBDA r : siftdown(r.heap, 0, r.pos, heap[1]))

\* heapq.heappush
heappush(heap, item) == siftdown(Append(heap, item), 0, Len(heap), item)

\* heapq.heappop on a heap that is not empty: [item, heap]
heappop(heap) ==
    IF Len(heap) = 1 THEN [item |-> heap[1], heap |-> << >>]
    ELSE [item |-> heap[1],
          heap |-> siftup([SubSeq(heap, 1, Len(heap) - 1) EXCEPT ![1] = heap[Len(heap)]])]

\* clear(): an empty heap and a new counter
clear(pq) == EmptyQueue

\* a push whose entries carry no sequence number
push_NoCounter(pq, priority, user) ==
    [heap |-> heappush(pq.heap, [priority |-> priority, count |-> 0, user |-> user]),
     counter |-> pq.counter + 1]

push(pq, priority, user) ==
    [heap |-> heappush(pq.heap, [priority |-> priority, count |-> pq.counter, user |-> user]),
     counter |-> pq.counter + 1]

\* a pop that answers an empty queue by starting over, as clear() does
pop_ClearOnEmpty(pq) ==
    IF pq.heap = << >> THEN [user |-> None, pq |-> EmptyQueue]
    ELSE Once(heappop(pq.heap), LAMBDA r :
            [user |-> r.item.user, pq |-> [pq EXCEPT !.heap = r.heap]])

\* pop: [user, pq]; user is none on an empty queue
pop(pq) ==
    IF pq.heap = << >> THEN [user |-> None, pq |-> pq]
    ELSE Once(heappop(pq.heap), LAMBDA r :
            [user |-> r.item.user, pq |-> [pq EXCEPT !.heap = r.heap]])

-----------------------------------------------------------------------------
(* greedy_redistribution.py: GreedyRedistributor *)

\* the candidate test of find_alternative_ap, stated for one AP
Qualifies(u, ap) ==
    /\ ap.floor = u.floor
    /\ ap.id # u.assigned_ap
    /\ ~LoadAtLeast(ap)
    /\ D2(u.x, u.y, ap.x, ap.y) <= ap.coverage_radius * ap.coverage_radius
    /\ D2(u.x, u.y, ap.x, ap.y) > 0

\* the loop of find_alternative_ap: best is the index of best_ap (0: none).
\* rssi = -30 - 20 * log10(dist) is above best_rssi exactly when dist is
\* below the distance of the best so far; the first rssi is above -200.
RECURSIVE AlternativeLoop(_, _, _, _)
AlternativeLoop(u, apl, j, best) ==
    IF j > Len(apl) THEN best
    ELSE LET ap == apl[j]
             d2 == D2(u.x, u.y, ap.x, ap.y)
         IN  IF ap.floor # u.floor THEN AlternativeLoop(u, apl, j + 1, best)
             ELSE IF ap.id = u.assigned_ap THEN AlternativeLoop(u, apl, j + 1, best)
             ELSE IF LoadAtLeast(ap) THEN AlternativeLoop(u, apl, j + 1, best)
             ELSE IF d2 > ap.coverage_radius * ap.coverage_radius
                  THEN AlternativeLoop(u, apl, j + 1, best)
             ELSE IF d2 <= 0 THEN AlternativeLoop(u, apl, j + 1, best)
             ELSE IF best = 0 \/ d2 < D2(u.x, u.y, apl[best].x, apl[best].y)
                  THEN AlternativeLoop(u, apl, j + 1, j)
                  ELSE AlternativeLoop(u, apl, j + 1, best)

\* index of the AP returned, 0 for none
find_alternative_ap(u, apl) == AlternativeLoop(u, apl, 1, 0)

\* indices of the overloaded APs, in list order
\* a detection that lists every overloaded AP twice
get_overloaded_aps_Twice(apl) ==
    SelectSeq(Indices(apl), LAMBDA j : LoadAbove(apl[j]))
        \o SelectSeq(Indices(apl), LAMBDA j : LoadAbove(apl[j]))

get_overloaded_aps(apl) == SelectSeq(Indices(apl), LAMBDA j : LoadAbove(apl[j]))

\* a queue built without the test of line 38: every user is pushed
RECURSIVE QueueEveryUser(_, _, _, _, _)
QueueEveryUser(cl, users, lo, hi, pq) ==
    IF lo > hi THEN pq
    ELSE IF lo = hi THEN push(pq, Abs(cl[users[lo]].RSSI), users[lo])
    ELSE Once(QueueEveryUser(cl, users, lo, (lo + hi) \div 2, pq), LAMBDA half :
            QueueEveryUser(cl, users, (lo + hi) \div 2 + 1, hi, half))

build_priority_queue_EveryUser(ap, cl, users) ==
    QueueEveryUser(cl, users, 1, Len(users), EmptyQueue)

\* the loop of build_priority_queue over users[lo..hi], in list order: the
\* first half of the range, then the second half on the queue the first left
RECURSIVE QueueLoop(_, _, _, _, _, _)
QueueLoop(ap, cl, users, lo, hi, pq) ==
    IF lo > hi THEN pq
    ELSE IF lo = hi
         THEN IF cl[users[lo]].assigned_ap = ap.id
              THEN push(pq, Abs(cl[users[lo]].RSSI), users[lo])
              ELSE pq
         ELSE Once(QueueLoop(ap, cl, users, lo, (lo + hi) \div 2, pq), LAMBDA half :
                 QueueLoop(ap, cl, users, (lo + hi) \div 2 + 1, hi, half))

\* the queue of the users (indices into cl, among users) assigned to ap
build_priority_queue(ap, cl, users) ==
    QueueLoop(ap, cl, users, 1, Len(users), EmptyQueue)

\* step 1 of redistribute without the reset of lines 87-89
Bookkeeping_TrustStale(apl, cl, users) ==
    [j \in 1..Len(apl) |->
        LET mine == SelectSeq(users, LAMBDA i :
                        cl[i].assigned_ap # None /\ ApIndex(apl, cl[i].assigned_ap) = j)
        IN  [apl[j] EXCEPT
                !.load = @ + 100 * SeqSum([n \in 1..Len(mine) |-> cl[mine[n]].airtime_usage]),
                !.connected_clients = @ \o [n \in 1..Len(mine) |-> cl[mine[n]].id]]]

\* step 1 of redistribute: loads and connected_clients from assigned_ap
Bookkeeping(apl, cl, users) ==
    [j \in 1..Len(apl) |->
        LET mine == SelectSeq(users, LAMBDA i :
                        cl[i].assigned_ap # None /\ ApIndex(apl, cl[i].assigned_ap) = j)
        IN  [apl[j] EXCEPT
                !.load = 100 * SeqSum([n \in 1..Len(mine) |-> cl[mine[n]].airtime_usage]),
                !.connected_clients = [n \in 1..Len(mine) |-> cl[mine[n]].id]]]

EmptyLog == [ran |-> FALSE, detect |-> << >>, overloaded |-> << >>,
             pops |-> << >>, moves |-> << >>, stops |-> << >>, assigned |-> << >>,
             hit |-> {}, solver |-> "idle", balancer |-> "none",
             raised |-> FALSE, caught |-> FALSE, graph |-> {}, capacity |-> << >>, found |-> None,
             queued |-> << >>]

\* the move without line 120: the receiving AP's load is not raised
MoveUser_DropLoad(st, i, j, k) ==
    LET u == st.cl[i]
        from == st.aps[j]
        to == st.aps[k]
    IN  [aps |-> [st.aps EXCEPT
                    ![j] = [from EXCEPT
                              !.load = from.load - 100 * u.airtime_usage,
                              !.connected_clients =
                                  IF InSeq(u.id, from.connected_clients)
                                  THEN RemoveFirst(from.connected_clients, u.id)
                                  ELSE from.connected_clients],
                    ![k] = [to EXCEPT
                              !.connected_clients = Append(to.connected_clients, u.id)]],
         cl |-> [st.cl EXCEPT ![i] = [u EXCEPT !.assigned_ap = to.id,
                                               !.connected_ap = to.id]],
         log |-> [st.log EXCEPT !.moves = Append(@,
                    [user |-> u.id, index |-> i, from |-> u.assigned_ap, to |-> to.id,
                     floor |-> u.floor, to_floor |-> to.floor,
                     from_overloaded |-> LoadAbove(from),
                     to_spare |-> ~LoadAtLeast(to),
                     covered |-> D2(u.x, u.y, to.x, to.y)
                                    <= to.coverage_radius * to.coverage_radius,
                     from_ap |-> from.id,
                     from_load |-> from.load, from_cap |-> dynamic_capacity(from),
                     to_load |-> to.load, to_cap |-> dynamic_capacity(to),
                     to_exact |-> CapacityIsExact(to),
                     dist2 |-> D2(u.x, u.y, to.x, to.y),
                     radius |-> to.coverage_radius])]]

\* the move of one user from AP j to AP k (lines 113-127)
MoveUser(st, i, j, k) ==
    LET u == st.cl[i]
        val == 100 * u.airtime_usage
        from == st.aps[j]
        to == st.aps[k]
    IN  [aps |-> [st.aps EXCEPT
                    ![j] = [from EXCEPT
                              !.load = from.load - val,
                              !.connected_clients =
                                  IF InSeq(u.id, from.connected_clients)
                                  THEN RemoveFirst(from.connected_clients, u.id)
                                  ELSE from.connected_clients],
                    ![k] = [to EXCEPT
                              !.load = to.load + val,
                              !.connected_clients = Append(to.connected_clients, u.id)]],
         cl |-> [st.cl EXCEPT ![i] = [u EXCEPT !.assigned_ap = to.id,
                                               !.connected_ap = to.id]],
         log |-> [st.log EXCEPT !.moves = Append(@,
                    [user |-> u.id, index |-> i, from |-> u.assigned_ap, to |-> to.id,
                     floor |-> u.floor, to_floor |-> to.floor,
                     from_overloaded |-> LoadAbove(from),
                     to_spare |-> ~LoadAtLeast(to),
                     covered |-> D2(u.x, u.y, to.x, to.y)
                                    <= to.coverage_radius * to.coverage_radius,
                     from_ap |-> from.id,
                     from_load |-> from.load, from_cap |-> dynamic_capacity(from),
                     to_load |-> to.load, to_cap |-> dynamic_capacity(to),
                     to_exact |-> CapacityIsExact(to),
                     dist2 |-> D2(u.x, u.y, to.x, to.y),
                     radius |-> to.coverage_radius])]]

StopRecord(st, j, reason, popped) ==
    [ap |-> st.aps[j].id, reason |-> reason,
     load |-> st.aps[j].load, cap |-> dynamic_capacity(st.aps[j]),
     fits |-> ~LoadAbove(st.aps[j]),
     popped |-> IF popped = 0 THEN None ELSE st.cl[popped].id,
     candidates |-> IF popped = 0 THEN {}
                    ELSE {a \in 1..Len(st.aps) : Qualifies(st.cl[popped], st.aps[a])}]

\* the while loop over the queue of overloaded AP j (lines 108-132)
RECURSIVE EvictLoop(_, _, _)
EvictLoop(st, j, pq) ==
    IF ~(Len(pq.heap) > 0 /\ LoadAbove(st.aps[j]))
    THEN [st EXCEPT !.log.stops = Append(@,
            StopRecord(st, j, IF LoadAbove(st.aps[j]) THEN "empty" ELSE "fits", 0))]
    ELSE Once(pop(pq), LAMBDA p :
            LET i == p.user
                u == st.cl[i]
                popped == [st EXCEPT !.log.pops = Append(@,
                             [ap |-> st.aps[j].id, user |-> u.id, RSSI |-> u.RSSI])]
            IN  Once(find_alternative_ap(u, st.aps), LAMBDA k :
                    IF k # 0
                    THEN Once(MoveUser(popped, i, j, k), LAMBDA moved :
                            EvictLoop(moved, j, p.pq))
                    ELSE [popped EXCEPT !.log.stops = Append(@,
                             StopRecord(popped, j, "no_alternative", i))]))

\* what is known when the queue of AP j has been built (line 105): the
\* queue's length and the number of users whose assigned_ap is the AP
QueueRecord(st, j, pq) ==
    [ap |-> st.aps[j].id, size |-> Len(pq.heap),
     connected |-> Cardinality({i \in 1..Len(st.cl) :
                                   st.cl[i].assigned_ap = st.aps[j].id})]

\* the loop over overloaded_aps (line 104)
RECURSIVE OverloadedLoop(_, _, _, _)
OverloadedLoop(st, users, overloaded, n) ==
    IF n > Len(overloaded) THEN st
    ELSE Once(build_priority_queue(st.aps[overloaded[n]], st.cl, users), LAMBDA pq :
         Once([st EXCEPT !.log.queued =
                  Append(@, QueueRecord(st, overloaded[n], pq))], LAMBDA queued :
         Once(EvictLoop(queued, overloaded[n], pq), LAMBDA next :
            OverloadedLoop(next, users, overloaded, n + 1))))

\* GreedyRedistributor(apl, [cl[i] : i in users]).redistribute():
\* the APs and the users afterwards, and the log of what was done
redistribute(apl, cl, users) ==
    Once(Bookkeeping(apl, cl, users), LAMBDA booked :
    Once(get_overloaded_aps(booked), LAMBDA overloaded :
    Once([aps |-> booked, cl |-> cl,
          log |-> [EmptyLog EXCEPT
                     !.ran = TRUE,
                     !.detect = [j \in 1..Len(booked) |-> booked[j].load],
                     !.overloaded = [n \in 1..Len(overloaded) |->
                                        booked[overloaded[n]].id]]], LAMBDA start :
    Once(OverloadedLoop(start, users, overloaded, 1), LAMBDA done :
        [done EXCEPT !.log.assigned = [i \in 1..Len(cl) |-> done.cl[i].assigned_ap]]))))

-----------------------------------------------------------------------------
(* simulator.py: apply_greedy *)

\* prev_load * LOAD_DECAY + instant_load * LOAD_GAIN_WEIGHT, clamped to 0..100;
\* prev in hundredths, instant in whole units
Smoothed(prev, instant) ==
    Max(0, Min((prev * LOAD_DECAY) \div 100 + instant * LOAD_GAIN_WEIGHT, 100 * LOAD_MAX))

\* new_loads[ap id]: airtime of the given users whose assigned_ap is the AP
InstantLoad(ap, cl, users) ==
    LET mine == SelectSeq(users, LAMBDA i : cl[i].assigned_ap = ap.id)
    IN  SeqSum([n \in 1..Len(mine) |-> cl[mine[n]].airtime_usage])

apply_greedy(apl, cl) ==
    Once(SelectSeq(Indices(cl), LAMBDA i : cl[i].nearest_ap # None), LAMBDA active_users :
        IF active_users = << >>
        THEN [aps |-> [j \in 1..Len(apl) |->
                          [apl[j] EXCEPT !.load = Max(0, (@ * LOAD_DECAY) \div 100),
                                         !.connected_clients = << >>]],
              cl |-> cl, log |-> EmptyLog]
        ELSE
        Once(redistribute(apl, cl, active_users), LAMBDA r :
        Once([i \in 1..Len(cl) |->
                 IF InSeq(i, active_users) /\ r.cl[i].assigned_ap # None
                 THEN [r.cl[i] EXCEPT !.connected_ap = r.cl[i].assigned_ap]
                 ELSE r.cl[i]], LAMBDA cl2 :
            [aps |-> [j \in 1..Len(apl) |->
                 LET ap == r.aps[j]
                     mine == SelectSeq(active_users, LAMBDA i :
                                (IF cl2[i].assigned_ap # None THEN cl2[i].assigned_ap
                                 ELSE cl2[i].nearest_ap) = ap.id)
                 IN  [ap EXCEPT
                        !.load = Smoothed(ap.load, InstantLoad(ap, cl2, active_users)),
                        !.connected_clients = [n \in 1..Len(mine) |-> cl2[mine[n]].id]]],
             cl |-> cl2, log |-> r.log])))

-----------------------------------------------------------------------------
(* cost_function.py: compute_cost, in thousandths *)

FLOOR_PENALTY == 10000
RSSI_THRESHOLD == -75

\* math.log10(max(dist, 1.0)), by the square of dist
Log10Cost(d2) ==
    CASE d2 = 0 -> <<0, 0, 0, 0, 0, 0>> [] d2 = 1 -> <<0, 0, 0, 0, 0, 0>>
      [] d2 = 4 -> <<0, 3010, 2999, 5663, 9811, 9521>> [] d2 = 9 -> <<0, 4771, 2125, 4719, 6624, 3729>>
      [] d2 = 16 -> <<0, 6020, 5999, 1327, 9623, 9042>> [] d2 = 25 -> <<0, 6989, 7000, 4336, 188, 478>>
      [] d2 = 36 -> <<0, 7781, 5125, 383, 6436, 3250>> [] d2 = 49 -> <<0, 8450, 9804, 14, 2568, 3071>>
      [] d2 = 64 -> <<0, 9030, 8998, 6991, 9435, 8564>> [] d2 = 81 -> <<0, 9542, 4250, 9439, 3248, 7459>>
      [] d2 = 100 -> <<1, 0, 0, 0, 0, 0>> [] d2 = 121 -> <<1, 413, 9268, 5158, 2250, 4075>>
      [] d2 = 144 -> <<1, 791, 8124, 6047, 6248, 2772>> [] d2 = 169 -> <<1, 1139, 4335, 2306, 8367, 6920>>
      [] d2 = 196 -> <<1, 1461, 2803, 5678, 2380, 2592>> [] d2 = 225 -> <<1, 1760, 9125, 9055, 6812, 4208>>
      [] d2 = 256 -> <<1, 2041, 1998, 2655, 9247, 8085>> [] d2 = 289 -> <<1, 2304, 4892, 1378, 2739, 2854>>
      [] d2 = 324 -> <<1, 2552, 7250, 5103, 3060, 6980>> [] d2 = 361 -> <<1, 2787, 5360, 952, 8289, 6153>>
      [] d2 = 400 -> <<1, 3010, 2999, 5663, 9811, 9521>> [] d2 = 2500 -> <<1, 6989, 7000, 4336, 188, 478>>
      [] d2 = 12100 -> <<2, 413, 9268, 5158, 2250, 4075>> [] d2 = 19600 -> <<2, 1461, 2803, 5678, 2380, 2592>>
      [] d2 = 19881 -> <<2, 1492, 1911, 2655, 3799, 170>> [] d2 = 20164 -> <<2, 1522, 8834, 4383, 564, 8130>>
      [] d2 = 20449 -> <<2, 1553, 3603, 7465, 618, 995>> [] d2 = 20736 -> <<2, 1583, 6249, 2095, 2496, 5544>>
      [] d2 = 21025 -> <<2, 1613, 6800, 2234, 9748, 9211>> [] d2 = 21316 -> <<2, 1643, 5285, 5784, 4370, 9628>>
      [] d2 = 21609 -> <<2, 1673, 1733, 4748, 1760, 9871>> [] d2 = 21904 -> <<2, 1702, 6171, 5394, 9573, 8723>>
      [] d2 = 22201 -> <<2, 1731, 8626, 8412, 2740, 3825>> [] d2 = 22500 -> <<2, 1760, 9125, 9055, 6812, 4208>>
      [] d2 = 22801 -> <<2, 1789, 7694, 7293, 1694, 3686>> [] d2 = 23104 -> <<2, 1818, 4358, 7944, 7725, 4717>>
      [] d2 = 23409 -> <<2, 1846, 9143, 817, 5988, 313>> [] d2 = 23716 -> <<2, 1875, 2072, 836, 4630, 6667>>
      [] d2 = 24025 -> <<2, 1903, 3169, 8170, 2914, 8445>> [] d2 = 24336 -> <<2, 1931, 2459, 8354, 4615, 9692>>
      [] d2 = 24649 -> <<2, 1958, 9965, 2409, 2337, 3676>> [] d2 = 24964 -> <<2, 1986, 5708, 6954, 4226, 2320>>
      [] d2 = 25281 -> <<2, 2013, 9712, 4320, 4514, 8292>> [] d2 = 25600 -> <<2, 2041, 1998, 2655, 9247, 8085>>
      [] d2 = 62500 -> <<2, 3979, 4000, 8672, 376, 957>> [] d2 = 90000 -> <<2, 4771, 2125, 4719, 6624, 3729>>
      [] d2 = 360000 -> <<2, 7781, 5125, 383, 6436, 3250>>

\* 1000 * W["signal"] * sig: temp_rssi = -30 - 20 * log10(max(dist, 1.0)) is
\* clamped to -95 .. -40 and sig = max(0, (-temp_rssi - 40) / 10), so that
\* 500 * sig = 1000 * log10 - 500, kept within 0 .. 2750
SignalTerm(d2) ==
    Once(Times(Log10Cost(d2), 1000), LAMBDA s :
        IF s[1] < 500 THEN Whole(0)
        ELSE IF s[1] >= 3250 THEN Whole(2750)
        ELSE [s EXCEPT ![1] = @ - 500])

\* temp_rssi < RSSI_THRESHOLD: 20 * log10 > 45, that is 500 * sig > 1750
Sticky(d2) == IF Less(Whole(1750), SignalTerm(d2)) THEN 1 ELSE 0

\* w * load_penalty(ap) for a whole weight w: load / cap with the capacity
\* of line 36, clamped to 0 .. 1.5; 5.0 when the capacity is not positive
LoadShare(ap, w) ==
    IF ap.airtime_capacity <= 0 THEN Whole(5 * w)
    ELSE IF ap.load <= 0 THEN Whole(0)
    ELSE Once(Over(Over(Times(Times(Times(InvCapacity(ap.user_count), 4), ap.load), w),
                        100), ap.airtime_capacity),
              LAMBDA t : IF Less(t, Over(Whole(3 * w), 2)) THEN t ELSE Over(Whole(3 * w), 2))

\* 1000 * load_penalty(ap), rounded down
load_penalty(ap) == LoadShare(ap, 1000)[1]

\* round(total, 3) of a total given in thousandths whose terms are not all
\* rational: it is never at a half, and the nearest whole number is the
\* float's
Rounded(t) == IF Less(t, <<t[1], 5000, 0, 0, 0, 0>>) THEN t[1] ELSE t[1] + 1

\* Python floats (IEEE 754 binary64) for the totals whose terms are all
\* rational, where the result of round(total, 3) at a half depends on the
\* rounding of every operation: a float is <<whole, b1, ..., b10>>, ten
\* places of 13 bits after the point
Float(i) == <<i, 0, 0, 0, 0, 0, 0, 0, 0, 0, 0>>

RECURSIVE CarryLoop(_, _, _)
CarryLoop(x, n, carry) ==
    IF n = 1 THEN <<x[1] + carry>>
    ELSE Once(x[n] + carry, LAMBDA p :
            Append(CarryLoop(x, n - 1, p \div 8192), p % 8192))

Carried(x) == CarryLoop(x, Len(x), 0)

\* the exact product with an integer, the exact sum, the exact product
ByInteger(x, k) == Carried([m \in 1..Len(x) |-> x[m] * k])

Added(x, y) == Carried([m \in 1..Len(x) |-> x[m] + y[m]])

RECURSIVE Convolved(_, _, _, _)
Convolved(x, y, k, i) ==
    IF i > Len(x) \/ i > k THEN 0
    ELSE (IF k + 1 - i <= Len(y) THEN x[i] * y[k + 1 - i] ELSE 0) + Convolved(x, y, k, i + 1)

Multiplied(x, y) == Carried([k \in 1..(Len(x) + Len(y) - 1) |-> Convolved(x, y, k, 1)])

\* the quotient by an integer, rounded down, followed by the remainder
RECURSIVE DividedLoop(_, _, _, _)
DividedLoop(x, k, n, rem) ==
    IF n > Len(x) THEN <<rem>>
    ELSE Once(rem * 8192 + x[n], LAMBDA cur :
            <<cur \div k>> \o DividedLoop(x, k, n + 1, cur % k))

Divided(x, k) == DividedLoop(x, k, 1, 0)

\* the place of the highest bit of x, counted from the lowest one (0)
TopBit(x) ==
    LET i == CHOOSE m \in 1..Len(x) : x[m] # 0 /\ \A l \in 1..(m - 1) : x[l] = 0
        b == CHOOSE c \in 0..30 : x[i] \div (2 ^ c) = 1
    IN  13 * (Len(x) - i) + b

Bit(x, k) == (x[Len(x) - (k \div 13)] \div (2 ^ (k % 13))) % 2

ZeroBelow(x, k) ==
    /\ x[Len(x) - (k \div 13)] % (2 ^ (k % 13)) = 0
    /\ \A m \in (Len(x) - (k \div 13) + 1)..Len(x) : x[m] = 0

\* round to nearest, ties to even, at 53 significant bits; sticky says that
\* the exact value lies above x
Nearest(x, sticky) ==
    IF \A m \in 1..Len(x) : x[m] = 0 THEN x
    ELSE LET s == TopBit(x) - 52
         IN  IF s <= 0 THEN x
             ELSE LET j == Len(x) - (s \div 13)
                      cut == [m \in 1..Len(x) |->
                                 IF m < j THEN x[m]
                                 ELSE IF m = j THEN x[m] - (x[m] % (2 ^ (s % 13)))
                                 ELSE 0]
                      up == /\ Bit(x, s - 1) = 1
                            /\ sticky \/ ~ZeroBelow(x, s - 1) \/ Bit(x, s) = 1
                  IN  IF up THEN Carried([cut EXCEPT ![j] = @ + 2 ^ (s % 13)]) ELSE cut

\* float(p / q) for integers, x * k, x / k, x + y and x * y as the machine
\* computes them
Ratio(p, q) ==
    Once(Divided(Float(p), q), LAMBDA d : Nearest(SubSeq(d, 1, 11), d[12] # 0))

FloatByInteger(x, k) == Nearest(ByInteger(x, k), FALSE)

FloatOver(x, k) ==
    Once(Divided(x, k), LAMBDA d : Nearest(SubSeq(d, 1, 11), d[12] # 0))

FloatSum(x, y) == Nearest(Added(x, y), FALSE)

FloatProduct(x, y) == SubSeq(Nearest(Multiplied(x, y), FALSE), 1, 11)

\* load_penalty(ap) of an AP without users, whose capacity is its base
FloatLoadPenalty(ap) ==
    IF ap.airtime_capacity <= 0 THEN Float(5)
    ELSE IF ap.load <= 0 THEN Float(0)
    ELSE Once(FloatOver(Ratio(ap.load, 100), ap.airtime_capacity), LAMBDA t :
            IF t[1] >= 2 \/ (t[1] = 1 /\ t[2] >= 4096) THEN Ratio(3, 2) ELSE t)

\* round(total, 3) * 1000 of a float: the nearest thousandth of its exact
\* value, a half to the even one
FloatRounded(total) ==
    Once(ByInteger(total, 2000), LAMBDA t :
        IF t[1] % 2 = 0 THEN t[1] \div 2
        ELSE IF \E m \in 2..Len(t) : t[m] # 0 THEN t[1] \div 2 + 1
        ELSE (t[1] \div 2) + ((t[1] \div 2) % 2))

\* lines 124-133 on floats, for a whole distance dist with sig in {0, 1}
\* and no sticky penalty
FloatCost(u, ap, dist) ==
    LET distance == FloatByInteger(Ratio(2, 10), dist)
        signal   == FloatByInteger(Ratio(5, 10), IF dist = 10 THEN 1 ELSE 0)
        airtime  == Float(u.airtime_usage)
        inter    == FloatProduct(Ratio(2, 10), Ratio(ap.interference_score, 100))
        load     == FloatProduct(Ratio(6, 10), FloatLoadPenalty(ap))
    IN  FloatRounded(FloatSum(FloatSum(FloatSum(FloatSum(distance, signal), airtime),
                                       inter), load))

\* 1000 * compute_cost(u, ap)
compute_cost(u, ap) ==
    IF u.floor # ap.floor THEN 1000 * FLOOR_PENALTY
    ELSE LET d2 == D2(u.x, u.y, ap.x, ap.y)
             whole == 200 * Dist(d2)                   \* W["distance"] * dist
                      + 1000 * u.airtime_usage         \* W["airtime"] * air
                      + 400 * Sticky(d2)               \* W["sticky"] * sticky
                      + 2 * ap.interference_score      \* W["interference"] * inter
         IN  IF ap.user_count = 0 /\ d2 \in {0, 1, 4, 9, 100}
             THEN FloatCost(u, ap, Dist(d2))
             ELSE Rounded(Sum(Whole(whole),
                              Sum(SignalTerm(d2),      \* W["signal"] * sig
                                  LoadShare(ap, 600)))) \* W["load"] * load

-----------------------------------------------------------------------------
(* graph_model.py, mcmf.py: the flow network and its solution *)

\* capacity of the edge AP -> T that run() solves with: int(max(1, cap))
SinkCapacity(ap) == Max(1, dynamic_capacity(ap) \div 100)

\* build_graph with an edge for every (user, AP) pair, other floors included
build_graph_AllPairs(cl, apl) ==
    {[from |-> "S", to |-> cl[i].id, capacity |-> 1, weight |-> 0] : i \in 1..Len(cl)}
    \cup {[from |-> cl[p[1]].id, to |-> apl[p[2]].id, capacity |-> 1,
           weight |-> compute_cost(cl[p[1]], apl[p[2]])] :
             p \in (1..Len(cl)) \X (1..Len(apl))}
    \cup {[from |-> apl[j].id, to |-> "T",
           capacity |-> TruncDiv(dynamic_capacity(apl[j]), 100), weight |-> 0] :
             j \in 1..Len(apl)}

\* GraphModel.build_graph(): the edges of the DiGraph with their attributes;
\* int(cap) truncates the capacity of an AP -> T edge
build_graph(cl, apl) ==
    {[from |-> "S", to |-> cl[i].id, capacity |-> 1, weight |-> 0] : i \in 1..Len(cl)}
    \cup {[from |-> cl[p[1]].id, to |-> apl[p[2]].id, capacity |-> 1,
           weight |-> compute_cost(cl[p[1]], apl[p[2]])] :
             p \in {q \in (1..Len(cl)) \X (1..Len(apl)) : apl[q[2]].floor = cl[q[1]].floor}}
    \cup {[from |-> apl[j].id, to |-> "T",
           capacity |-> TruncDiv(dynamic_capacity(apl[j]), 100), weight |-> 0] :
             j \in 1..Len(apl)}

\* steps 1 and 2 of run(): the graph handed to the solver, every AP -> T edge
\* with its capacity set to int(max(1, cap))
solved_graph(cl, apl) ==
    {e \in build_graph(cl, apl) : e.to # "T"}
    \cup {[from |-> apl[j].id, to |-> "T", capacity |-> SinkCapacity(apl[j]), weight |-> 0] :
             j \in {k \in 1..Len(apl) :
                       \E e \in build_graph(cl, apl) : e.from = apl[k].id /\ e.to = "T"}}

\* a flow of the network, as the AP index each user sends its unit to (0: none):
\* user -> AP edges exist for same-floor pairs only, AP -> T is capacitated
Flows(cl, apl) ==
    Once([j \in 1..Len(apl) |-> SinkCapacity(apl[j])], LAMBDA capacity :
        {m \in [1..Len(cl) -> 0..Len(apl)] :
            /\ \A i \in 1..Len(cl) : m[i] # 0 => apl[m[i]].floor = cl[i].floor
            /\ \A j \in 1..Len(apl) :
                  Cardinality({i \in 1..Len(cl) : m[i] = j}) <= capacity[j]})

FlowValue(m) == Cardinality({i \in DOMAIN m : m[i] # 0})

\* the weights of the user -> AP edges, as build_graph computes them once
EdgeWeights(cl, apl) ==
    [i \in 1..Len(cl) |-> [j \in 1..Len(apl) |->
        IF apl[j].floor = cl[i].floor THEN compute_cost(cl[i], apl[j]) ELSE 0]]

WeightOf(m, w) == SeqSum([i \in DOMAIN m |-> IF m[i] = 0 THEN 0 ELSE w[i][m[i]]])

\* nx.max_flow_min_cost(G, "S", "T"), called at mcmf.py:46.  networkx is no
\* part of the repository; the operator stands for the call by the contract
\* the specification gives the solver: the maximum flows of minimum total
\* weight, of which the call returns one (which one is left open).  The
\* weights are those of build_graph, compute_cost rounded to three places, in
\* whole thousandths; what the solver does with their binary64 values, for
\* which networkx gives no guarantee, is not modelled.  The operator supplies
\* the flows run() and apply_mcmf() work on; no property rests on its
\* optimality.
max_flow_min_cost(cl, apl) ==
    Once(Flows(cl, apl), LAMBDA F :
    Once(EdgeWeights(cl, apl), LAMBDA w :
    Once({FlowValue(m) : m \in F}, LAMBDA values :
    Once(CHOOSE v \in values : \A x \in values : x <= v, LAMBDA maxValue :
    Once({<<m, WeightOf(m, w)>> : m \in {f \in F : FlowValue(f) = maxValue}}, LAMBDA maxF :
    Once(CHOOSE c \in {p[2] : p \in maxF} : \A p \in maxF : c <= p[2], LAMBDA minCost :
        {p[1] : p \in {q \in maxF : q[2] = minCost}}))))))

\* an extraction that leaves the users without a unit of flow out of the dict
Extract_OmitUnmatched(m, cl, apl) ==
    [uid \in {cl[i].id : i \in {k \in 1..Len(cl) : m[k] # 0}} |->
        apl[m[CHOOSE k \in 1..Len(cl) : cl[k].id = uid]].id]

\* steps 4 and 5 of run(): the dict user id -> AP id / none read off the flow;
\* the AP taken is the first one in list order that is on the user's floor and
\* carries the user's unit of flow
Extract(m, cl, apl) ==
    [uid \in {cl[i].id : i \in 1..Len(cl)} |->
        LET i == CHOOSE k \in 1..Len(cl) : cl[k].id = uid
            carrying == {j \in 1..Len(apl) : apl[j].floor = cl[i].floor /\ m[i] = j}
        IN  IF carrying = {} THEN None
            ELSE apl[CHOOSE j \in carrying : \A k \in carrying : j <= k].id]

\* run() that reports a solver exception as a result of all none, not by raising
run_ReturnOnFailure(cl, apl, solver_raises, m) ==
    IF solver_raises
    THEN [raised |-> FALSE, assignments |-> [uid \in {cl[i].id : i \in 1..Len(cl)} |-> None]]
    ELSE [raised |-> FALSE, assignments |-> Extract(m, cl, apl)]

\* MCMFEngine.run(): solver_raises: nx.max_flow_min_cost raised, and run() raises
\* RuntimeError in turn (lines 46-49), returning nothing; m: the flow it returned
run(cl, apl, solver_raises, m) ==
    IF solver_raises
    THEN [raised |-> TRUE, assignments |-> None]
    ELSE [raised |-> FALSE, assignments |-> Extract(m, cl, apl)]

-----------------------------------------------------------------------------
(* simulator.py: apply_mcmf *)

EmptyDict == [uid \in {} |-> None]

DictGet(d, k) == IF k \in DOMAIN d THEN d[k] ELSE None

\* lines 365-409: install the assignments, smooth the loads, rebuild the lists
InstallAssignments(apl, cl, asg) ==
    Once([i \in 1..Len(cl) |->
             [cl[i] EXCEPT !.assigned_ap = DictGet(asg, cl[i].id),
                           !.connected_ap = DictGet(asg, cl[i].id)]], LAMBDA cl2 :
        [aps |-> [j \in 1..Len(apl) |->
                    LET ap == apl[j]
                        mine == SelectSeq(Indices(cl2), LAMBDA i : cl2[i].assigned_ap = ap.id)
                    IN  [ap EXCEPT
                           !.load = Smoothed(ap.load, InstantLoad(ap, cl2, Indices(cl2))),
                           !.connected_clients = [n \in 1..Len(mine) |-> cl2[mine[n]].id]]],
         cl |-> cl2])

\* a guard that compares the raw count with the airtime capacity
OverloadedInRawCount_Airtime(apl) ==
    \E j \in 1..Len(apl) : 100 * apl[j].user_count > dynamic_capacity(apl[j])

\* lines 350-352: some AP already holds more users than max_users
OverloadedInRawCount(apl) ==
    \E j \in 1..Len(apl) : apl[j].user_count > apl[j].max_users

\* fails: MCMFEngine.run() raised; m: the flow the solver returned otherwise
apply_mcmf(apl0, cl0, asg0, band, fails, m) ==
    Once(update_rssi(cl0, apl0, band), LAMBDA cl :
    Once(update_ap_load(apl0, cl), LAMBDA apl :
        IF OverloadedInRawCount(apl)
        THEN Once(redistribute(apl, cl, Indices(cl)), LAMBDA r :
                [aps |-> r.aps, cl |-> r.cl, assignments |-> asg0, log |-> r.log,
                 path |-> "apply_mcmf_guard"])
        ELSE Once(run(cl, apl, fails, m), LAMBDA res :
        IF res.raised
        THEN Once(redistribute(apl, cl, Indices(cl)), LAMBDA r :
             Once([uid \in {r.cl[i].id : i \in 1..Len(cl)} |->
                      r.cl[CHOOSE k \in 1..Len(cl) : r.cl[k].id = uid].nearest_ap],
                  LAMBDA asg :
             Once(InstallAssignments(r.aps, r.cl, asg), LAMBDA inst :
                [aps |-> inst.aps, cl |-> inst.cl, assignments |-> asg,
                 log |-> [r.log EXCEPT !.solver = "failed"],
                 path |-> "apply_mcmf_fallback"])))
        ELSE Once(InstallAssignments(apl, cl, res.assignments), LAMBDA inst :
                [aps |-> inst.aps, cl |-> inst.cl, assignments |-> res.assignments,
                 log |-> [EmptyLog EXCEPT !.solver = "solved"],
                 path |-> "apply_mcmf_solved"]))))

-----------------------------------------------------------------------------
(* simulator.py: move_users, to_global, get_state; ap_killer.py: update *)

\* the floats that are not finite are numbers beyond every coordinate,
\* load and speed of the model: Inf stands for inf, -Inf for -inf, and NaN
\* for nan (what inf - inf gives), of which no comparison holds
Inf == 1000000

NaN == Inf + Inf

\* math.isfinite
IsFinite(v) == -Inf < v /\ v < Inf

\* v + d for a finite d: inf, -inf and nan stay what they are
Plus(v, d) == IF IsFinite(v) THEN v + d ELSE v

\* x + v * speed for a speed above 0: an infinite product takes a finite x
\* with it, and inf - inf is nan
Advanced(x, v, speed) ==
    IF x = NaN \/ v = NaN THEN NaN
    ELSE IF ~IsFinite(v) THEN (IF IsFinite(x) \/ x = v THEN v ELSE NaN)
    ELSE IF ~IsFinite(x) THEN x
    ELSE x + v * speed

\* max(lo, min(hi, x)): min and max return their first argument unless the
\* second one is below it (above it), which nan never is
Clamped(lo, hi, x) ==
    LET m == IF x # NaN /\ x < hi THEN x ELSE hi
    IN  IF m > lo THEN m ELSE lo

\* a float result that went beyond every number of the model: inf or -inf
Sat(v) == IF v >= Inf THEN Inf ELSE IF v <= -Inf THEN -Inf ELSE v

\* safe_float, safe_int: the value if it is a finite number, else the default 0
safe_float(v) == IF IsFinite(v) THEN v ELSE 0

safe_int(v) == IF IsFinite(v) THEN v ELSE 0

\* the velocity a redirect draws: (cos(ang) * spd, sin(ang) * spd) for the
\* angle 0 and the speed 1 of uniform(1, 2)
Redirects == {<<1, 0>>}

\* what random gives move_users for one user: whether the 5% redirect is
\* taken and the velocity it draws (to), and the velocity drawn for a user
\* whose velocity is not valid (fix)
Still == [redirect |-> FALSE, to |-> <<1, 0>>, fix |-> <<1, 0>>]

\* the draws followed for the i-th user of the list: the 5% redirect is
\* followed for the first MaxMovers users, the draw of every other user
\* stays at or above 0.05
Draws(i) ==
    IF i <= MaxMovers
    THEN {Still} \cup {[Still EXCEPT !.redirect = TRUE, !.to = v] : v \in Redirects}
    ELSE {Still}

\* the draws of one move_users() call, one per user
Moves(cl) ==
    LET movers == {i \in 1..Len(cl) : i <= MaxMovers}
    IN  {[i \in 1..Len(cl) |-> IF i \in movers THEN f[i] ELSE Still] :
            f \in [movers -> UNION {Draws(i) : i \in movers}]}

\* the loop body of move_users for one user (lines 160-194)
MoveOne(u, draw) ==
    IF u.floor \notin Floors
    THEN u                \* no room: _reset_user_position finds no room either
    ELSE
    LET r == Room(u.floor)
        x1 == r.x
        y1 == r.y
        x2 == r.x + r.width
        y2 == r.y + r.height
        valid == IsFinite(u.x) /\ IsFinite(u.y)
        x0 == IF valid THEN u.x ELSE (x1 + x2) \div 2
        y0 == IF valid THEN u.y ELSE (y1 + y2) \div 2
        v0 == IF IsFinite(u.vx) /\ IsFinite(u.vy) THEN <<u.vx, u.vy>> ELSE draw.fix
        v == IF draw.redirect THEN draw.to ELSE v0
        nx == safe_float(x0 + v[1])
        ny == safe_float(y0 + v[2])
        hitx == nx <= x1 \/ nx >= x2
        hity == ny <= y1 \/ ny >= y2
    IN  [u EXCEPT !.x = IF hitx THEN Max(x1 + 1, Min(x2 - 1, nx)) ELSE nx,
                  !.y = IF hity THEN Max(y1 + 1, Min(y2 - 1, ny)) ELSE ny,
                  !.vx = IF hitx THEN -v[1] ELSE v[1],
                  !.vy = IF hity THEN -v[2] ELSE v[2]]

\* a walk in which a user that changes place lands on floor 8
move_users_CrossFloor(cl, draws) ==
    [i \in 1..Len(cl) |->
        LET moved == MoveOne(cl[i], draws[i])
        IN  IF moved.x # cl[i].x THEN [moved EXCEPT !.floor = 8] ELSE moved]

move_users(cl, draws) == [i \in 1..Len(cl) |-> MoveOne(cl[i], draws[i])]

MARGIN == 20
FLOOR_HEIGHT == 350

to_global(floor, x, y) ==
    IF floor \notin Floors THEN <<x, y>>
    ELSE LET index == Cardinality({f \in Floors : f > floor})
         IN  <<Plus(x, MARGIN), Plus(y, MARGIN + index * (FLOOR_HEIGHT + MARGIN))>>

\* APKiller.update, lines 63-74: the killer after its movement, kept inside
\* the rooms of floor `level` (the floor whose rooms step() collected at
\* line 617) when that floor has rooms
killer_moved(k, level) ==
    LET x1 == Advanced(k.x, k.vx, KILLER_SPEED)
        y1 == Advanced(k.y, k.vy, KILLER_SPEED)
        r == Room(level)
    IN  IF level \in Floors
        THEN [k EXCEPT !.x = Clamped(r.x + 8, r.x + r.width - 8, x1),
                       !.y = Clamped(r.y + 8, r.y + r.height - 8, y1)]
        ELSE [k EXCEPT !.x = x1, !.y = y1]

\* lines 82-91 for one AP: it is on the killer's floor and
\* math.dist(...) < 180, with the killer at the global point kg; an infinite
\* or nan distance is not below 180
killer_hits(level, kg, ap) ==
    LET ag == to_global(ap.floor, ap.x, ap.y)
    IN  /\ ap.floor = level
        /\ IsFinite(kg[1]) /\ IsFinite(kg[2])
        /\ D2(kg[1], kg[2], ag[1], ag[2]) < KILLER_RADIUS * KILLER_RADIUS

\* line 92
killer_hit(ap) == [ap EXCEPT !.load = Min(100 * LOAD_MAX, @ + 100 * KILLER_LOAD)]

\* APKiller.update for an active killer; with a str for vx, line 63 raises
\* TypeError before anything is written
killer_update(k, apl) ==
    IF k.vx_is_str
    THEN [raised |-> TRUE, killer |-> k, aps |-> apl, hit |-> {}]
    ELSE Once(killer_moved(k, k.floor), LAMBDA moved :
         Once(to_global(moved.floor, moved.x, moved.y), LAMBDA kg :
            [raised |-> FALSE,
             killer |-> moved,
             aps |-> [j \in 1..Len(apl) |->
                        IF killer_hits(moved.floor, kg, apl[j])
                        THEN killer_hit(apl[j]) ELSE apl[j]],
             hit |-> {apl[j].id : j \in {n \in 1..Len(apl) :
                                           killer_hits(moved.floor, kg, apl[n])}}]))

\* APKiller.reposition_center(aps, rooms, floor): the killer is put at the
\* centre of the first room of `rooms` whose name starts with "corridor",
\* and left where it is when there is none; aps and floor are not used
reposition_center(k, rooms) ==
    LET corridors == SelectSeq(rooms, LAMBDA r : r.corridor)
    IN  IF corridors = << >> THEN k
        ELSE [k EXCEPT !.x = corridors[1].x + corridors[1].width \div 2,
                       !.y = corridors[1].y + corridors[1].height \div 2]

\* APKiller.get_nearest_ap_id; no distance is below inf, so with the killer
\* at an infinite coordinate no AP is taken
get_nearest_ap_id(k, apl) ==
    LET onFloor == SelectSeq(Indices(apl), LAMBDA j :
                       apl[j].floor = k.floor /\ IsFinite(k.x) /\ IsFinite(k.y))
        d(j) == D2(k.x, k.y, apl[j].x, apl[j].y)
    IN  IF onFloor = << >> THEN None
        ELSE apl[onFloor[CHOOSE n \in 1..Len(onFloor) :
                    \A o \in 1..Len(onFloor) :
                        d(onFloor[n]) < d(onFloor[o]) \/ (d(onFloor[n]) = d(onFloor[o]) /\ n <= o)
                ]].id

\* get_state, lines 650-670: the entry of one AP, with the band, the
\* user_count and the load as read; the numeric fields go through safe_float
\* / safe_int, floor and id are copied as they are
ApEntry(ap, band, user_count, load) ==
    [id |-> ap.id, floor |-> ap.floor,
     x |-> safe_float(ap.x), y |-> safe_float(ap.y),
     gx |-> safe_float(to_global(ap.floor, ap.x, ap.y)[1]),
     gy |-> safe_float(to_global(ap.floor, ap.x, ap.y)[2]),
     band |-> IF ap.band = None THEN band ELSE ap.band,
     interference_score |-> safe_float(ap.interference_score),
     airtime_capacity |-> safe_int(ap.airtime_capacity),
     max_users |-> safe_int(ap.max_users),
     coverage_radius |-> safe_float(ap.coverage_radius),
     user_count |-> safe_int(user_count),
     load |-> safe_float(load)]

\* the fields of a user dict in the order get_state reads them: x and y for
\* to_global (line 687), then the fields of the entry (lines 693-703)
FieldsOf(u) ==
    [xg |-> u.x, yg |-> u.y, x |-> u.x, y |-> u.y, vx |-> u.vx, vy |-> u.vy,
     nearest_ap |-> u.nearest_ap, assigned_ap |-> u.assigned_ap,
     connected_ap |-> u.connected_ap, RSSI |-> u.RSSI]

\* get_state, lines 687-704: the entry of one user from the fields as read
UserEntry(u, cur) ==
    [id |-> u.id, floor |-> u.floor,
     x |-> safe_float(cur.x), y |-> safe_float(cur.y),
     gx |-> safe_float(to_global(u.floor, cur.xg, cur.yg)[1]),
     gy |-> safe_float(to_global(u.floor, cur.xg, cur.yg)[2]),
     vx |-> safe_float(cur.vx), vy |-> safe_float(cur.vy),
     nearest_ap |-> cur.nearest_ap, assigned_ap |-> cur.assigned_ap,
     connected_ap |-> cur.connected_ap,
     airtime_usage |-> safe_int(u.airtime_usage),
     RSSI |-> safe_int(cur.RSSI)]

\* get_state, lines 717-732: the AP-killer's entry, built from the live
\* fields: kg its global point (line 711), kxy its x and y (lines 721-722),
\* nearest what get_nearest_ap_id returned
KillerEntry(k, kxy, kg, nearest) ==
    [id |-> "AP-KILLER", floor |-> k.floor, x |-> kxy[1], y |-> kxy[2],
     gx |-> kg[1], gy |-> kg[2],
     vx |-> k.vx, vy |-> k.vy, vx_is_str |-> k.vx_is_str,
     nearest_ap |-> nearest,
     assigned_ap |-> None, connected_ap |-> None,
     airtime_usage |-> 10, RSSI |-> -20]

\* the snapshot get_state() returns for engine state S, with no other thread
\* at work on the engine
get_state(S) ==
    LET visible == SelectSeq(S.clients, LAMBDA u : u.assigned_ap # None \/ u.nearest_ap # None)
        k == S.killer
    IN  [aps |-> [j \in 1..Len(S.aps) |->
                    ApEntry(S.aps[j], S.band, S.aps[j].user_count, S.aps[j].load)],
         clients |-> [n \in 1..Len(visible) |-> UserEntry(visible[n], FieldsOf(visible[n]))]
                     \o (IF k.active
                         THEN << KillerEntry(k, <<k.x, k.y>>, to_global(k.floor, k.x, k.y),
                                             get_nearest_ap_id(k, S.aps)) >>
                         ELSE << >>),
         assignments |-> S.assignments,
         alarms |-> << >>]

-----------------------------------------------------------------------------
(* The engine state as one value, and the phases of step() on it *)

Sim == [aps |-> aps, clients |-> clients, assignments |-> assignments, tick |-> tick,
        band |-> current_band, killer |-> ap_killer, glog |-> glog]

Install(S) ==
    \E T \in {S} :
        /\ aps' = T.aps
        /\ clients' = T.clients
        /\ assignments' = T.assignments
        /\ tick' = T.tick
        /\ current_band' = T.band
        /\ ap_killer' = T.killer
        /\ glog' = T.glog

\* step(), line 593
PhaseMove(S, np) == [S EXCEPT !.clients = move_users(S.clients, np)]

\* step(), lines 596-597
PhaseSignal(S) ==
    Once(update_rssi(S.clients, S.aps, S.band), LAMBDA cl :
        [S EXCEPT !.clients = cl, !.aps = update_ap_load(S.aps, cl)])

\* step() without line 608: the balancer runs, the tick stays
PhaseBalance_KeepTick(S, fails, m) ==
    IF USE_MCMF /\ Len(S.clients) <= MCMF_MAX_USERS /\ S.tick % MCMF_EVERY_N_TICKS = 0
    THEN Once(apply_mcmf(S.aps, S.clients, S.assignments, S.band, fails, m), LAMBDA r :
            [S EXCEPT !.aps = r.aps, !.clients = r.cl, !.assignments = r.assignments,
                      !.glog = [r.log EXCEPT !.balancer = "apply_mcmf"]])
    ELSE Once(apply_greedy(S.aps, S.clients), LAMBDA r :
            [S EXCEPT !.aps = r.aps, !.clients = r.cl,
                      !.glog = [r.log EXCEPT !.balancer = "apply_greedy"]])

\* step(), lines 603-608; glog.balancer records which of the two calls was made
PhaseBalance(S, fails, m) ==
    IF USE_MCMF /\ Len(S.clients) <= MCMF_MAX_USERS /\ S.tick % MCMF_EVERY_N_TICKS = 0
    THEN Once(apply_mcmf(S.aps, S.clients, S.assignments, S.band, fails, m), LAMBDA r :
            [S EXCEPT !.aps = r.aps, !.clients = r.cl, !.assignments = r.assignments,
                      !.glog = [r.log EXCEPT !.balancer = "apply_mcmf"],
                      !.tick = S.tick + 1])
    ELSE Once(apply_greedy(S.aps, S.clients), LAMBDA r :
            [S EXCEPT !.aps = r.aps, !.clients = r.cl,
                      !.glog = [r.log EXCEPT !.balancer = "apply_greedy"],
                      !.tick = S.tick + 1])

\* step(), lines 616-618
\* glog.raised: the update raised, and step() with it (the call is outside
\* the try block of lines 591-614)
PhaseKiller(S) ==
    IF S.killer.active
    THEN Once(killer_update(S.killer, S.aps), LAMBDA r :
            [S EXCEPT !.killer = r.killer, !.aps = r.aps, !.glog.hit = r.hit,
                      !.glog.raised = r.raised])
    ELSE S

\* step(), lines 610-613: update_rssi raised inside the try block; the
\* exception is printed, update_ap_load, the balancer and line 608 are skipped
\* glog.caught: an exception was caught
PhaseCaught(S) ==
    [S EXCEPT !.clients = update_rssi(S.clients, S.aps, S.band),
              !.glog = [EmptyLog EXCEPT !.caught = TRUE]]

step(S, np, fails, m) ==
    Once(PhaseMove(S, np), LAMBDA moved :
        IF update_rssi_raises_at(moved.clients, moved.aps, moved.band) # 0
        THEN PhaseKiller(PhaseCaught(moved))
        ELSE Once(PhaseSignal(moved), LAMBDA measured :
             Once(PhaseBalance(measured, fails, m), LAMBDA balanced :
                PhaseKiller(balanced))))

-----------------------------------------------------------------------------
(* Initial state: WifiSimulator.__init__ on users.json / aps.json *)

\* generate_initial_data.py: rssi_from_dist
rssi_from_dist(d2) ==
    IF d2 <= 1 THEN RSSI_CEIL
    ELSE Max(RSSI_FLOOR, Min(RSSI_CEIL, TruncDiv(-3000000 - 20 * Log10E5(d2), 100000)))

\* compute_floor_targets for this layout: floor 7 is the only floor of
\* FLOOR_DENSITY with APs (54 slots); its share int(175 * 0.18) + 3 = 34 is
\* raised four times by the leftover loop before the loop gives up
FloorTarget == 38

\* the n-th point and airtime generate_users draws: rand_point(room) rounded
\* to two places, random.randint(1, 5)
GeneratedDraw(n) == [x |-> IF n = 1 THEN 149 ELSE 140, y |-> 0, airtime_usage |-> 5]

\* the velocity __init__ gives the n-th user: setdefault("vx", uniform(-1, 1))
InitVelocity(n) == <<0, 0>>

\* generate_users on floor `level`; st[j]: what ap_state holds for apl[j].
\* An attempt takes the closest AP of the floor with a free slot
\* (user_count < max_clients) and safe airtime left (at most 0.8 of the
\* capacity); with no such AP the floor is exhausted and the loop breaks.
RECURSIVE generate_users(_, _, _, _)
generate_users(apl, level, st, users) ==
    IF Len(users) >= FloorTarget THEN users
    ELSE
    LET draw == GeneratedDraw(Len(users) + 1)
        candidates == {j \in 1..Len(apl) :
                          /\ apl[j].floor = level
                          /\ st[j].user_count < apl[j].max_users
                          /\ 10 * (st[j].airtime_used + draw.airtime_usage)
                                 <= 8 * apl[j].airtime_capacity}
        d2(j) == D2(draw.x, draw.y, apl[j].x, apl[j].y)
    IN  IF candidates = {} THEN users
        ELSE LET best == CHOOSE j \in candidates :
                            \A k \in candidates : d2(j) < d2(k) \/ (d2(j) = d2(k) /\ j <= k)
                 v == InitVelocity(Len(users) + 1)
             IN  generate_users(apl, level,
                    [st EXCEPT ![best] = [user_count |-> @.user_count + 1,
                                          airtime_used |-> @.airtime_used + draw.airtime_usage]],
                    Append(users,
                       [id |-> UserId(Len(users) + 1), floor |-> level,
                        x |-> draw.x, y |-> draw.y, vx |-> v[1], vy |-> v[2],
                        airtime_usage |-> draw.airtime_usage,
                        nearest_ap |-> None, assigned_ap |-> apl[best].id,
                        connected_ap |-> apl[best].id,
                        RSSI |-> rssi_from_dist(d2(best))]))

\* users.json as generate_users writes it for InitAps, read by __init__
InitClients ==
    generate_users(InitAps, 7,
                   [j \in 1..Len(InitAps) |-> [user_count |-> 0, airtime_used |-> 0]], << >>)

\* UserPriorityQueue(), nothing popped, nothing pushed
QueueInit == [pq |-> EmptyQueue, returned |-> None, pushed |-> 0]

\* vx_is_str: vx holds a str (the product of a str by 6), not the number in vx
InitKiller == [active |-> FALSE, floor |-> 1, x |-> 0, y |-> 0, vx |-> 0, vy |-> 0,
               vx_is_str |-> FALSE]

\* what a request handler holds while it runs (none is being served: op is
\* "none"):
\*   op, at    the handler and its place in it
\*   j, n, f   the turns done of its loops: over the APs, over the visible
\*             users, over the fields of a user
\*   cnt       get_state: the user_count read for the AP entry being built
\*   aps, clients   get_state: aps_out and users_out so far
\*   vis       get_state: visible_users, as places in self.clients
\*   cur       get_state: the fields read for the user entry being built
\*   kg, kxy, kbest   get_state: the AP-killer's global point, its x and y
\*             as read for the entry, and best_id / best_dist (squared, -1
\*             for inf) of get_nearest_ap_id
\*   uid, airtime   remove_user_from_floor: the id and airtime of the user
\*   held      remove_user_from_floor: the list ap.get("connected_clients")
\*             returned; live: it still is the AP's list, else the thread has
\*             put another list in its place and `was` is what it holds
\*   ld        remove_user_from_floor: ap["load"] as read at line 571
\*   band      /setband: the band of the request
NoCur == [xg |-> 0, yg |-> 0, x |-> 0, y |-> 0, vx |-> 0, vy |-> 0,
          nearest_ap |-> None, assigned_ap |-> None, connected_ap |-> None, RSSI |-> 0]

NoRequest ==
    [op |-> "none", at |-> "", j |-> 0, n |-> 0, f |-> 0, cnt |-> 0,
     aps |-> << >>, clients |-> << >>, vis |-> << >>, cur |-> NoCur,
     kg |-> <<0, 0>>, kxy |-> <<0, 0>>, kbest |-> [id |-> None, d2 |-> -1],
     uid |-> None, airtime |-> 0, held |-> [live |-> TRUE, was |-> << >>],
     ld |-> 0, band |-> None]

\* The caller's side.  begun: the calls of step() made so far; calls: the
\* other operations called so far (by main.py: the requests taken up, and
\* those of them to /apkiller/deploy and to /apkiller/floor/{level}).
\* main.py: sim.ready, and the snapshots of
\* the running tick: at its entry, served by GET /state while it runs, and at
\* its end (each << >> or <<snapshot>>); and what the executor thread holds
\* in local variables while it runs step():
\*   i       the turns done of the loop it is in
\*   at      its place in the turn
\*   u       the id of the user dict of the turn
\*   plan    move_users: the writes of the turn still to be made
\*   fa, k, best   update_rssi: floor_aps as indices, the turn of the loop
\*           over it, and (best_ap, best_rssi); k is also the AP at hand in
\*           find_alternative_ap
\*   alt     find_alternative_ap: best_ap, as an index (0: None)
\*   ld      a load read and not yet written back
\*   active  the ids of the dicts in active_users (simulator.py:429)
\*   gone    the dicts a handler has removed from self.clients and the
\*           thread still refers to
\*   over    overloaded_aps (greedy_redistribution.py:101), as indices
\*   n       the turns done of the loop over overloaded_aps
\*   pq      the queue of the overloaded AP at hand, its users as places in
\*           active_users
\*   pu      the user popped from it, as a place in active_users
\*   rooms   the floors whose rooms line 617 collected
\*   kg      the killer's global point (ap_killer.py:79)
\*   caught  step() has caught an exception of its phases 1 to 3
\* and what the request handler being served holds (req, below)
HostInit == [ready |-> FALSE, calls |-> 0, deploys |-> 0, floors |-> 0, begun |-> 0,
             pre |-> << >>, mid |-> << >>, post |-> << >>,
             i |-> 0, at |-> "", u |-> None, plan |-> << >>,
             fa |-> << >>, k |-> 0, best |-> NoBest, alt |-> 0, ld |-> 0,
             active |-> << >>, gone |-> << >>, over |-> << >>, n |-> 0,
             pq |-> EmptyQueue, pu |-> 0, rooms |-> << >>, kg |-> <<0, 0>>,
             caught |-> FALSE, req |-> NoRequest]

Init ==
    /\ aps = InitAps
    /\ clients = InitClients
    /\ assignments = EmptyDict
    /\ tick = 0
    /\ current_band = "5"
    /\ ap_killer = InitKiller
    /\ glog = EmptyLog
    /\ last = "init"
    /\ drawn = 0
    /\ queue = QueueInit
    /\ pc = "idle"
    /\ host = HostInit

-----------------------------------------------------------------------------
(* The operations of the engine and the handlers of main.py that call them  *)

UnchangedEngine == UNCHANGED <<aps, clients, assignments, tick, current_band, ap_killer, glog>>

\* WifiSimulator.step() called with no other thread at work on the engine:
\* it runs to its return.  (The step() that main.py runs in the executor
\* thread beside its request handlers is HostStepBegin and StepMove to
\* StepImpact of Next.)
\* last: "step" for a call that ran all its phases and returned,
\* "step_caught" for one that caught an exception of its phases 1 to 3 and
\* returned, "step_raised" for one that raised to its caller
Step ==
    /\ pc = "idle"
    /\ host.begun < MaxTick
    /\ \E np \in Moves(clients) :
       \E S \in {step(Sim, np, FALSE, [i \in 1..Len(clients) |-> 0])} :
          /\ Install(S)
          /\ last' = IF S.glog.raised THEN "step_raised"
                     ELSE IF S.glog.caught THEN "step_caught" ELSE "step"
    /\ host' = [host EXCEPT !.begun = @ + 1]
    /\ UNCHANGED <<drawn, queue, pc>>

\* the point an added user is put at: random.uniform over the room inset by 5
SpawnPoints == {<<140, 0>>}

\* the velocity an added user is given: random.uniform(-1, 1) twice
SpawnVelocities == {<<0, 0>>}

\* id is the identifier drawn
add_user_to_floor(cl, id, floor, p, v, airtime) ==
    Append(cl, [id |-> id, floor |-> floor,
                x |-> p[1], y |-> p[2], vx |-> v[1], vy |-> v[2],
                airtime_usage |-> airtime,
                nearest_ap |-> None, assigned_ap |-> None, connected_ap |-> None,
                RSSI |-> RSSI_FLOOR])

AddUserEnabled(cl, floor) ==
    /\ floor \in Floors
    /\ Cardinality({i \in 1..Len(cl) : cl[i].floor = floor}) < MAX_FLOOR_CAP
    /\ Len(cl) < MaxUsers
    /\ drawn < MaxAdded

\* main.py /floor/{floor}/add_user: WifiSimulator.add_user_to_floor(floor)
AddUserCall ==
    /\ \E floor \in Floors, p \in SpawnPoints, v \in SpawnVelocities,
          airtime \in AirtimeValues, id \in AddedIds(drawn + 1) :
          /\ AddUserEnabled(clients, floor)
          /\ clients' = add_user_to_floor(clients, id, floor, p, v, airtime)
    /\ drawn' = drawn + 1
    /\ last' = "add_user"
    /\ UNCHANGED <<aps, assignments, tick, current_band, ap_killer, glog, queue>>

\* self.clients.remove(user): list.remove drops the first record equal to the
\* chosen one (two users added with the same draws are equal records)
FirstEqual(cl, user) ==
    CHOOSE k \in 1..Len(cl) : cl[k] = user /\ \A m \in 1..(k - 1) : cl[m] # user

\* remove_user_from_floor with clients[i] as the random choice
remove_user_from_floor(S, i) ==
    LET user == S.clients[i]
    IN  [S EXCEPT
           !.clients = RemoveAt(S.clients, FirstEqual(S.clients, user)),
           !.assignments = [uid \in (DOMAIN S.assignments) \ {user.id} |-> S.assignments[uid]],
           !.aps = [j \in 1..Len(S.aps) |->
                      IF InSeq(user.id, S.aps[j].connected_clients)
                      THEN [S.aps[j] EXCEPT
                              !.connected_clients = RemoveFirst(@, user.id),
                              !.load = Max(0, @ - 100 * user.airtime_usage)]
                      ELSE S.aps[j]]]

\* the users random.choice(users_on_floor) is followed for: the first and the
\* last user of each floor
RemoveChoices(cl) ==
    {i \in 1..Len(cl) :
        \/ \A k \in 1..Len(cl) : cl[k].floor = cl[i].floor => k >= i
        \/ \A k \in 1..Len(cl) : cl[k].floor = cl[i].floor => k <= i}

\* main.py /floor/{floor}/remove_user: WifiSimulator.remove_user_from_floor(floor)
RemoveUserCall ==
    /\ Len(InitClients) + drawn - Len(clients) < MaxRemoved
    /\ \E i \in RemoveChoices(clients) : Install(remove_user_from_floor(Sim, i))
    /\ last' = "remove_user"
    /\ UNCHANGED <<drawn, queue>>

\* main.py /apkiller/deploy: APKiller.deploy()
KillerDeployCall ==
    /\ ap_killer' = [ap_killer EXCEPT !.active = TRUE, !.vx = 0, !.vy = 0,
                                      !.vx_is_str = FALSE]
    /\ last' = "deploy"
    /\ UNCHANGED <<aps, clients, assignments, tick, current_band, glog, drawn, queue>>

\* the levels /apkiller/floor/{level} is called with
KillerLevels == {7}

\* main.py /apkiller/floor/{level}: APKiller.set_floor(level)
KillerFloorCall ==
    /\ \E level \in KillerLevels : ap_killer' = [ap_killer EXCEPT !.floor = level]
    /\ last' = "killer_floor"
    /\ UNCHANGED <<aps, clients, assignments, tick, current_band, glog, drawn, queue>>

\* main.py /apkiller/withdraw: APKiller.withdraw()
KillerWithdrawCall ==
    /\ ap_killer' = [ap_killer EXCEPT !.active = FALSE]
    /\ last' = "withdraw"
    /\ UNCHANGED <<aps, clients, assignments, tick, current_band, glog, drawn, queue>>

\* main.py /setband, lines 256-261.  The band of the request is not
\* validated: for a band that is no key of band_coverage, line 261 raises
\* KeyError in the first turn of the loop, with current_band and the first
\* AP's band written
setband(S, band) ==
    IF band \in Bands
    THEN [S EXCEPT !.band = band,
                   !.aps = [j \in 1..Len(S.aps) |->
                              [S.aps[j] EXCEPT !.band = band,
                                               !.coverage_radius = band_coverage(band)]]]
    ELSE [S EXCEPT !.band = band,
                   !.aps = [j \in 1..Len(S.aps) |->
                              IF j = 1 THEN [S.aps[j] EXCEPT !.band = band] ELSE S.aps[j]]]

\* the bands requested: one of band_coverage and one that is not
BandInputs == {"6", "6E"}

SetBandCall ==
    /\ \E band \in BandInputs :
          /\ Install(setband(Sim, band))
          /\ last' = IF band \in Bands THEN "setband" ELSE "setband_raised"
    /\ UNCHANGED <<drawn, queue>>

\* the request bodies: vx an int, the float Infinity (json.loads accepts it),
\* or a str; vy is left out and defaults to 0
MoveBodies ==
    { [kind |-> "number", vx |-> 0], [kind |-> "number", vx |-> 1],
      [kind |-> "number", vx |-> Inf], [kind |-> "str", vx |-> 0] }

\* main.py, move_apkiller(data): vx = data.get("vx", 0) * 6, for a str its
\* sixfold repetition; vy = 0 * 6
move_apkiller(k, body) ==
    IF body.kind = "str"
    THEN [k EXCEPT !.vx = 0, !.vx_is_str = TRUE, !.vy = 0]
    ELSE [k EXCEPT !.vx = Sat(body.vx * 6), !.vx_is_str = FALSE, !.vy = 0]

\* main.py /apkiller/move
KillerMoveCall ==
    /\ \E body \in MoveBodies : ap_killer' = move_apkiller(ap_killer, body)
    /\ last' = "move"
    /\ UNCHANGED <<aps, clients, assignments, tick, current_band, glog, drawn, queue>>

\* move_users() called by the caller itself (tests/test_simulator_basics.py:12)
MoveUsersCall ==
    /\ \E np \in Moves(clients) : clients' = move_users(clients, np)
    /\ last' = "move_users"
    /\ UNCHANGED <<aps, assignments, tick, current_band, ap_killer, glog, drawn, queue>>

\* update_rssi() called by the caller itself (test_simulator_basics.py:22);
\* the KeyError of line 279 reaches the caller
UpdateRssiCall ==
    /\ clients' = update_rssi(clients, aps, current_band)
    /\ last' = IF update_rssi_raises_at(clients, aps, current_band) # 0
               THEN "update_rssi_raised" ELSE "update_rssi"
    /\ UNCHANGED <<aps, assignments, tick, current_band, ap_killer, glog, drawn, queue>>

\* update_ap_load() called by the caller itself (test_simulator_basics.py:32)
UpdateApLoadCall ==
    /\ aps' = update_ap_load(aps, clients)
    /\ last' = "update_ap_load"
    /\ UNCHANGED <<clients, assignments, tick, current_band, ap_killer, glog, drawn, queue>>

\* the caller of the engine runs an operation between two calls of step()
Called ==
    /\ pc = "idle"
    /\ host.calls < MaxCalls
    /\ host' = [host EXCEPT !.calls = @ + 1]
    /\ UNCHANGED pc

AddUser == Called /\ AddUserCall
RemoveUser == Called /\ RemoveUserCall
KillerDeploy == Called /\ KillerDeployCall
KillerWithdraw == Called /\ KillerWithdrawCall
KillerFloor == Called /\ KillerFloorCall
KillerMove == Called /\ KillerMoveCall
SetBand == Called /\ SetBandCall
MoveUsers == Called /\ MoveUsersCall
UpdateRssi == Called /\ UpdateRssiCall
UpdateApLoad == Called /\ UpdateApLoadCall

\* the engine driven by one caller, every call run to its return before the
\* next one is made (the way tests/test_simulator_basics.py drives it, and
\* the case of the properties stated for completed calls)
NextEngine ==
    \/ Step
    \/ AddUser
    \/ RemoveUser
    \/ KillerDeploy
    \/ KillerWithdraw
    \/ KillerFloor
    \/ KillerMove
    \/ SetBand
    \/ MoveUsers
    \/ UpdateRssi
    \/ UpdateApLoad

SpecEngine == Init /\ [][NextEngine]_vars

-----------------------------------------------------------------------------
(* main.py: simulator_loop runs step() in an executor thread while the      *)
(* event loop keeps serving the request handlers.  Nothing orders a handler *)
(* against a running step(): there is no lock.  The interpreter can switch  *)
(* between the two threads wherever a call has returned, at the entry of a  *)
(* function and at the end of a loop turn.  The thread and the handlers are *)
(* followed from one such point to the next one that has a read or a write  *)
(* of data the other side writes or reads before it: one step of Next is    *)
(* the code between two of these points, and the values a thread has read   *)
(* and not yet used are kept in `host`.  Code between two switch points     *)
(* that touches only what the other side neither reads nor writes is taken  *)
(* together with the step after it.  The handlers run on the event loop,    *)
(* one after the other.  With the requests followed (MaxHostCalls) at most  *)
(* one user is added, so that the ids of the users are distinct and the     *)
(* references to user dicts are followed by id.                             *)

\* aps.json: one AP as __init__ holds it after its setdefault calls (lines
\* 98-103), for an entry with the keys id, floor, x, y and airtime_capacity;
\* interference_score and band are no keys of it: the code reads them with
\* the defaults 0.0 and current_band
LoadedAp(id, floor, x, y, airtime_capacity) ==
    [id |-> id, floor |-> floor, x |-> x, y |-> y,
     airtime_capacity |-> airtime_capacity, max_users |-> 30,
     interference_score |-> 0, load |-> 0,
     connected_clients |-> << >>, user_count |-> 0, band |-> None,
     coverage_radius |-> DEFAULT_COVERAGE]

\* users.json: one user as __init__ holds it (lines 106-113), for an entry
\* that has every key but nearest_ap: a user at (x, 0) with the velocity
\* (vx, 0) and the airtime 5, connected to ap
LoadedUser(id, floor, x, vx, ap) ==
    [id |-> id, floor |-> floor, x |-> x, y |-> 0, vx |-> vx, vy |-> 0,
     airtime_usage |-> 5, nearest_ap |-> None, assigned_ap |-> ap.id,
     connected_ap |-> ap.id, RSSI |-> rssi_from_dist(D2(x, 0, ap.x, ap.y))]

\* the data directory the program is started on: two APs on floor 7, of
\* airtime capacity 6
HostAps ==
    << LoadedAp("AP_7A", 7, 0, 0, 6),
       LoadedAp("AP_7B", 7, 151, 0, 6) >>

\* and two users of AP_7A: one walking into the wall at x = 0, one at rest
HostClients ==
    << LoadedUser(UserId(1), 7, 1, -1, HostAps[1]),
       LoadedUser(UserId(2), 7, 5, 0, HostAps[1]) >>

\* campus_layout.json: the floors in the order of the file
Levels == <<7, 8>>

\* the program before the first tick
HostStart ==
    /\ aps = HostAps
    /\ clients = HostClients
    /\ assignments = EmptyDict
    /\ tick = 0
    /\ current_band = "5"
    /\ ap_killer = InitKiller
    /\ glog = EmptyLog
    /\ last = "init"
    /\ drawn = 0
    /\ queue = QueueInit
    /\ pc = "idle"
    /\ host = HostInit

\* the place of a user dict in self.clients, 0 when a handler has removed it
UserPlace(id) ==
    IF \E i \in 1..Len(clients) : clients[i].id = id
    THEN CHOOSE i \in 1..Len(clients) : clients[i].id = id
    ELSE 0

GonePlace(id) == CHOOSE g \in 1..Len(host.gone) : host.gone[g].id = id

\* the dict a reference of the thread leads to: in self.clients, or removed
\* from it since
Deref(id) ==
    IF UserPlace(id) # 0 THEN clients[UserPlace(id)] ELSE host.gone[GonePlace(id)]

\* a removed dict is kept for as long as the thread has a reference to it
Kept(h) ==
    [h EXCEPT !.gone = SelectSeq(@, LAMBDA d : d.id = h.u \/ InSeq(d.id, h.active))]

\* the thread's place in step(): pc is "idle" between two calls of step()
\* and else names the function or loop the thread is in, host.at its place
\* in it
At(place, h) == pc' = place /\ host' = Kept(h)

\* the thread has written the dict of user id, which is now nu
Wrote(id, nu, h) ==
    IF UserPlace(id) # 0
    THEN /\ clients' = [clients EXCEPT ![UserPlace(id)] = nu]
         /\ host' = Kept(h)
    ELSE /\ clients' = clients
         /\ host' = Kept([h EXCEPT !.gone = [host.gone EXCEPT ![GonePlace(id)] = nu]])

\* the thread has put a new list in the place of ap["connected_clients"] of
\* AP j: a handler that holds the old list goes on with the old one
Replaced(h, j) ==
    IF h.req.op = "remove" /\ h.req.at = "in" /\ h.req.j = j /\ h.req.held.live
    THEN [h EXCEPT !.req.held = [live |-> FALSE, was |-> aps[j].connected_clients]]
    ELSE h

\* step() has returned to simulator_loop (main.py:62)
Returned(how) ==
    /\ At("idle", [host EXCEPT !.post = IF how = "step" THEN <<get_state(Sim)>> ELSE @,
                               !.i = 0, !.at = "", !.u = None, !.plan = << >>,
                               !.fa = << >>, !.k = 0, !.best = NoBest, !.alt = 0, !.ld = 0,
                               !.active = << >>, !.gone = << >>,
                               !.over = << >>, !.n = 0, !.pq = EmptyQueue, !.pu = 0,
                               !.rooms = << >>, !.kg = <<0, 0>>, !.caught = FALSE])
    /\ last' = IF how = "step" /\ host.caught THEN "step_caught" ELSE how

\* active_users: the dicts the thread's list refers to
active_users == [n \in 1..Len(host.active) |-> Deref(host.active[n])]

\* simulator_loop, line 62: step() is handed to the executor; the loop is a
\* coroutine of the event loop and runs between two handlers
HostStepBegin ==
    /\ pc = "idle"
    /\ host.begun < MaxHostTick
    /\ host.req.op = "none"
    /\ At("move", [host EXCEPT !.pre = <<get_state(Sim)>>, !.mid = << >>,
                               !.post = << >>, !.i = 0, !.begun = @ + 1])
    /\ UNCHANGED <<last, drawn, queue>>
    /\ UnchangedEngine

\* the writes of one turn of move_users (lines 160-199) in their order, each
\* as the user's <<x, y, vx, vy>> after it: lines 169-170, 176, 177, 183, 184,
\* 192, 196 and 199.  A call lies between any two of them.
MovePlan(u, draw) ==
    IF u.floor \notin Floors
    THEN << >>            \* no room: _reset_user_position finds no room either
    ELSE
    LET r == Room(u.floor)
        x1 == r.x
        y1 == r.y
        x2 == r.x + r.width
        y2 == r.y + r.height
        valid == IsFinite(u.x) /\ IsFinite(u.y)
        x0 == IF valid THEN u.x ELSE (x1 + x2) \div 2
        y0 == IF valid THEN u.y ELSE (y1 + y2) \div 2
        vok == IsFinite(u.vx) /\ IsFinite(u.vy)
        v0 == IF vok THEN <<u.vx, u.vy>> ELSE draw.fix
        v == IF draw.redirect THEN draw.to ELSE v0
        hitx == safe_float(x0 + v[1]) <= x1 \/ safe_float(x0 + v[1]) >= x2
        hity == safe_float(y0 + v[2]) <= y1 \/ safe_float(y0 + v[2]) >= y2
        fx == IF hitx THEN -v[1] ELSE v[1]
        moved == MoveOne(u, draw)
    IN  (IF valid THEN << >> ELSE << <<x0, y0, u.vx, u.vy>> >>)
        \o (IF vok THEN << >>
            ELSE << <<x0, y0, draw.fix[1], u.vy>>, <<x0, y0, draw.fix[1], draw.fix[2]>> >>)
        \o (IF draw.redirect
            THEN << <<x0, y0, draw.to[1], v0[2]>>, <<x0, y0, draw.to[1], draw.to[2]>> >>
            ELSE << >>)
        \o (IF hitx THEN << <<x0, y0, fx, v[2]>> >> ELSE << >>)
        \o (IF hity THEN << <<x0, y0, fx, moved.vy>> >> ELSE << >>)
        \o << <<moved.x, moved.y, moved.vx, moved.vy>> >>

\* move_users.  With no write of the turn left: the next turn of the loop of
\* line 159 begins, the draws of random are made and the writes of the turn
\* are known (they depend on the user's own fields only, which no handler
\* writes); a list iterator goes by position, so that it passes over a user
\* when a handler removes one it has visited, and visits a user a handler
\* appends; the loop ends when the position is past the end of the list.
\* Else: the next write of the turn.
StepMove ==
    /\ pc = "move"
    /\ IF host.plan # << >>
       THEN /\ \E s \in {Head(host.plan)} :
                  Wrote(host.u,
                        [Deref(host.u) EXCEPT !.x = s[1], !.y = s[2], !.vx = s[3], !.vy = s[4]],
                        [host EXCEPT !.plan = Tail(@),
                                     !.u = IF Len(host.plan) = 1 THEN None ELSE @])
            /\ pc' = pc
       ELSE IF host.i < Len(clients)
       THEN /\ \E draw \in Draws(host.i + 1) :
               \E plan \in {MovePlan(clients[host.i + 1], draw)} :
                  At(pc, [host EXCEPT !.i = @ + 1, !.plan = plan,
                                      !.u = IF plan = << >> THEN None
                                            ELSE clients[host.i + 1].id])
            /\ UNCHANGED clients
       ELSE /\ At("rssi", [host EXCEPT !.i = 0, !.at = "next"])
            /\ UNCHANGED clients
    /\ UNCHANGED <<aps, assignments, tick, current_band, ap_killer, glog, last, drawn, queue>>

\* the place after the turn of the loop of line 269 for the k-th AP of
\* floor_aps
AfterAp(h, k, best) ==
    IF k < Len(h.fa)
    THEN [h EXCEPT !.k = k + 1, !.best = best]
    ELSE [h EXCEPT !.k = 0, !.best = best, !.fa = << >>,
                   !.at = IF best.ap = None THEN "drop" ELSE "write"]

\* update_rssi.  "next": the next turn of the loop of line 249 begins, up to
\* floor_aps.  "ap": one turn of the loop of line 269, which reads
\* current_band (lines 279, 282) and the AP's band (282); line 279 raises
\* KeyError for a band that is no key of band_coverage: step() catches it
\* (line 610) and goes on at line 616.  "drop": lines 257-260 or 297-300.
\* "write": lines 306-308.  "int": the store of line 309, after int().
StepRssi ==
    /\ pc = "rssi"
    /\ CASE host.at = "next" ->
              /\ IF host.i < Len(clients)
                 THEN \E u \in {clients[host.i + 1]} :
                      \E fa \in {SelectSeq(Indices(aps), LAMBDA j : aps[j].floor = u.floor)} :
                         At(pc, [host EXCEPT !.i = @ + 1, !.u = u.id, !.fa = fa,
                                             !.k = IF fa = << >> THEN 0 ELSE 1,
                                             !.best = NoBest,
                                             !.at = IF fa = << >> THEN "drop" ELSE "ap"])
                 ELSE At("reset", [host EXCEPT !.i = 0, !.at = ""])
              /\ UNCHANGED clients
           [] host.at = "ap" ->
              /\ IF current_band \notin Bands
                 THEN At("killer", [host EXCEPT !.i = 0, !.at = "active", !.u = None,
                                                !.fa = << >>, !.k = 0, !.best = NoBest,
                                                !.caught = TRUE])
                 ELSE At(pc, AfterAp(host, host.k,
                                     BestTurn(Deref(host.u), aps[host.fa[host.k]],
                                              current_band, host.best)))
              /\ UNCHANGED clients
           [] host.at = "drop" ->
              /\ Wrote(host.u, Disconnected(Deref(host.u)),
                       [host EXCEPT !.at = "next", !.u = None, !.fa = << >>])
              /\ pc' = pc
           [] host.at = "write" ->
              /\ Wrote(host.u, [Deref(host.u) EXCEPT !.nearest_ap = host.best.ap,
                                                     !.assigned_ap = host.best.ap,
                                                     !.connected_ap = host.best.ap],
                       [host EXCEPT !.at = "int"])
              /\ pc' = pc
           [] host.at = "int" ->
              /\ Wrote(host.u, [Deref(host.u) EXCEPT !.RSSI = TruncDiv(host.best.rssi, 100000)],
                       [host EXCEPT !.at = "next", !.u = None, !.best = NoBest])
              /\ pc' = pc
    /\ UNCHANGED <<aps, assignments, tick, current_band, ap_killer, glog, last, drawn, queue>>

\* update_ap_load, one turn of the loop of line 320
StepReset ==
    /\ pc = "reset"
    /\ IF host.i < Len(aps)
       THEN /\ aps' = [aps EXCEPT ![host.i + 1].user_count = 0]
            /\ At(IF host.i + 1 < Len(aps) THEN pc ELSE "count",
                  [host EXCEPT !.i = IF host.i + 1 < Len(aps) THEN @ + 1 ELSE 0,
                               !.at = IF host.i + 1 < Len(aps) THEN "" ELSE "next"])
       ELSE /\ At("count", [host EXCEPT !.i = 0, !.at = "next"])
            /\ UNCHANGED aps
    /\ UNCHANGED <<clients, assignments, tick, current_band, ap_killer, glog, last, drawn, queue>>

\* update_ap_load.  "next": the next turn of the loop of line 324 begins and
\* reads the user's assigned_ap; "add": line 331.  After the loop step()
\* chooses the balancer (line 603): apply_mcmf, run whole, or apply_greedy;
\* line 608 (the tick) is taken with the step after the balancer.
StepCount ==
    /\ pc = "count"
    /\ IF host.at = "add"
       THEN /\ aps' = [aps EXCEPT ![ApIndex(aps, Deref(host.u).assigned_ap)].user_count = @ + 1]
            /\ At(pc, [host EXCEPT !.at = "next", !.u = None])
            /\ UNCHANGED <<clients, assignments, tick>>
       ELSE IF host.i < Len(clients)
       THEN /\ \E u \in {clients[host.i + 1]} :
                  IF u.assigned_ap # None /\ ApIndex(aps, u.assigned_ap) # 0
                  THEN At(pc, [host EXCEPT !.i = @ + 1, !.at = "add", !.u = u.id])
                  ELSE At(pc, [host EXCEPT !.i = @ + 1])
            /\ UNCHANGED <<aps, clients, assignments, tick>>
       ELSE IF USE_MCMF /\ Len(clients) <= MCMF_MAX_USERS /\ tick % MCMF_EVERY_N_TICKS = 0
            THEN /\ \E S \in {PhaseBalance(Sim, FALSE, [i \in 1..Len(clients) |-> 0])} :
                       /\ aps' = S.aps
                       /\ clients' = S.clients
                       /\ assignments' = S.assignments
                 /\ At("killer", [host EXCEPT !.i = 0, !.at = "active"])
                 /\ UNCHANGED tick
            ELSE /\ At("active", [host EXCEPT !.i = 0, !.at = "", !.active = << >>])
                 /\ UNCHANGED <<aps, clients, assignments, tick>>
    /\ UNCHANGED <<current_band, ap_killer, glog, last, drawn, queue>>

\* apply_greedy, line 429: one turn of the list comprehension over
\* self.clients; with the list built, lines 432-437 or redistribute()
StepActive ==
    /\ pc = "active"
    /\ IF host.i < Len(clients)
       THEN At(pc, [host EXCEPT
                      !.i = @ + 1,
                      !.active = IF clients[host.i + 1].nearest_ap # None
                                 THEN Append(@, clients[host.i + 1].id) ELSE @])
       ELSE IF host.active = << >>
            THEN At("decay", [host EXCEPT !.i = 0, !.at = "read"])
            ELSE At("clean", [host EXCEPT !.i = 0, !.at = ""])
    /\ UNCHANGED <<aps, clients, assignments, tick, current_band, ap_killer, glog, last, drawn, queue>>

\* apply_greedy without active users, the loop of line 434.  "read": the
\* AP's load is read (line 435); "write": lines 435-436, after max()
StepDecay ==
    /\ pc = "decay"
    /\ IF host.i >= Len(aps)
       THEN /\ At("killer", [host EXCEPT !.i = 0, !.at = "active"])
            /\ UNCHANGED aps
       ELSE IF host.at = "read"
       THEN /\ At(pc, [host EXCEPT !.at = "write", !.ld = aps[host.i + 1].load])
            /\ UNCHANGED aps
       ELSE /\ aps' = [aps EXCEPT ![host.i + 1] =
                         [@ EXCEPT !.load = Max(0, (host.ld * LOAD_DECAY) \div 100),
                                   !.connected_clients = << >>]]
            /\ At(IF host.i + 1 < Len(aps) THEN pc ELSE "killer",
                  [Replaced(host, host.i + 1) EXCEPT
                      !.i = IF host.i + 1 < Len(aps) THEN @ + 1 ELSE 0,
                      !.ld = 0,
                      !.at = IF host.i + 1 < Len(aps) THEN "read" ELSE "active"])
    /\ UNCHANGED <<clients, assignments, tick, current_band, ap_killer, glog, last, drawn, queue>>

\* redistribute, one turn of the loop of line 87
StepClean ==
    /\ pc = "clean"
    /\ aps' = [aps EXCEPT ![host.i + 1] = [@ EXCEPT !.load = 0, !.connected_clients = << >>]]
    /\ At(IF host.i + 1 < Len(aps) THEN pc ELSE "accumulate",
          [Replaced(host, host.i + 1) EXCEPT
              !.i = IF host.i + 1 < Len(aps) THEN @ + 1 ELSE 0,
              !.at = IF host.i + 1 < Len(aps) THEN "" ELSE "read"])
    /\ UNCHANGED <<clients, assignments, tick, current_band, ap_killer, glog, last, drawn, queue>>

\* redistribute, the loop of line 91 over active_users.  "read": the next
\* turn begins and reads the load of the user's AP (line 96, before the call
\* of user.get); "write": the sum is stored and the id appended (lines
\* 96-97).  After the loop the overloaded APs are looked for (line 101).
StepAccumulate ==
    /\ pc = "accumulate"
    /\ IF host.i >= Len(host.active)
       THEN /\ At("overloaded", [host EXCEPT !.i = 0, !.at = "detect", !.over = << >>,
                                             !.n = 0])
            /\ UNCHANGED aps
       ELSE \E u \in {active_users[host.i + 1]} :
            \E j \in {ApIndex(aps, u.assigned_ap)} :
               IF u.assigned_ap = None \/ j = 0
               THEN /\ At(pc, [host EXCEPT !.i = @ + 1])
                    /\ UNCHANGED aps
               ELSE IF host.at = "read"
               THEN /\ At(pc, [host EXCEPT !.at = "write", !.ld = aps[j].load])
                    /\ UNCHANGED aps
               ELSE /\ aps' = [aps EXCEPT ![j] =
                                 [@ EXCEPT !.load = host.ld + 100 * u.airtime_usage,
                                           !.connected_clients = Append(@, u.id)]]
                    /\ At(pc, [host EXCEPT !.i = @ + 1, !.at = "read", !.ld = 0])
    /\ UNCHANGED <<clients, assignments, tick, current_band, ap_killer, glog, last, drawn, queue>>

\* redistribute.  "detect": one turn of the loop of get_overloaded_aps (line
\* 26), which reads the AP's load (line 28).  "queue": one turn of the loop
\* of line 104 up to the while loop: the queue of the next overloaded AP is
\* built (lines 105-106); after the last AP apply_greedy goes on at line 443.
StepOverloaded ==
    /\ pc = "overloaded"
    /\ IF host.at = "detect"
       THEN At(pc, [host EXCEPT
                      !.over = IF LoadAbove(aps[host.i + 1]) THEN Append(@, host.i + 1) ELSE @,
                      !.i = IF host.i + 1 < Len(aps) THEN @ + 1 ELSE 0,
                      !.at = IF host.i + 1 < Len(aps) THEN "detect" ELSE "queue"])
       ELSE IF host.n < Len(host.over)
       THEN At("evict", [host EXCEPT
                           !.n = @ + 1, !.at = "load",
                           !.pq = build_priority_queue(aps[host.over[host.n + 1]],
                                      active_users, Indices(active_users))])
       ELSE At("connect", [host EXCEPT !.i = 0, !.at = "", !.over = << >>, !.n = 0,
                                       !.pq = EmptyQueue])
    /\ UNCHANGED <<aps, clients, assignments, tick, current_band, ap_killer, glog, last, drawn, queue>>

\* find_alternative_ap, the place after the turn of the loop of line 51 for
\* AP k: the next AP that is on the user's floor and is not the user's AP
\* (lines 53-58), or the end of the loop: the move (line 112), or line 132
AfterAlt(h, k, alt) ==
    LET u == Deref(h.active[h.pu])
        rest == {m \in (k + 1)..Len(aps) : aps[m].floor = u.floor /\ aps[m].id # u.assigned_ap}
    IN  IF rest # {}
        THEN [h EXCEPT !.k = CHOOSE m \in rest : \A o \in rest : m <= o,
                       !.alt = alt, !.at = "alt"]
        ELSE IF alt # 0
        THEN [h EXCEPT !.k = 0, !.alt = alt, !.at = "move"]
        ELSE [h EXCEPT !.k = 0, !.alt = 0, !.pu = 0, !.at = "queue", !.pq = EmptyQueue]

\* redistribute, the while loop of line 108 for the overloaded AP
\* over[n].  "load": the test of line 108, which reads the AP's load, and
\* the pop of line 109.  "alt": find_alternative_ap reads the load of AP k
\* (line 61); "cov": it reads the AP's coverage_radius (line 66) and takes
\* the AP when it is the strongest so far.  "move": lines 113-125;
\* "append": line 127.  The loop is left when the queue is empty, when the
\* AP's load is no longer above the capacity of line 106, or when no AP is
\* found (line 132).
StepEvict ==
    /\ pc = "evict"
    /\ \E j \in {host.over[host.n]} :
       CASE host.at = "load" ->
              /\ IF ~(Len(host.pq.heap) > 0 /\ LoadAbove(aps[j]))
                 THEN At("overloaded", [host EXCEPT !.at = "queue", !.pq = EmptyQueue])
                 ELSE \E p \in {pop(host.pq)} :
                         \E h \in {AfterAlt([host EXCEPT !.pq = p.pq, !.pu = p.user], 0, 0)} :
                            At(IF h.at = "queue" THEN "overloaded" ELSE pc, h)
              /\ UNCHANGED <<aps, clients>>
         [] host.at = "alt" ->
              /\ IF LoadAtLeast(aps[host.k])
                 THEN \E h \in {AfterAlt(host, host.k, host.alt)} :
                         At(IF h.at = "queue" THEN "overloaded" ELSE pc, h)
                 ELSE At(pc, [host EXCEPT !.at = "cov"])
              /\ UNCHANGED <<aps, clients>>
         [] host.at = "cov" ->
              /\ \E u \in {Deref(host.active[host.pu])} :
                 \E d2 \in {D2(u.x, u.y, aps[host.k].x, aps[host.k].y)} :
                 \E take \in {/\ d2 <= aps[host.k].coverage_radius * aps[host.k].coverage_radius
                              /\ d2 > 0
                              /\ \/ host.alt = 0
                                 \/ d2 < D2(u.x, u.y, aps[host.alt].x, aps[host.alt].y)} :
                 \E h \in {AfterAlt(host, host.k, IF take THEN host.k ELSE host.alt)} :
                    At(IF h.at = "queue" THEN "overloaded" ELSE pc, h)
              /\ UNCHANGED <<aps, clients>>
         [] host.at = "move" ->
              /\ \E u \in {Deref(host.active[host.pu])} :
                    /\ aps' = [aps EXCEPT
                                 ![j] = [@ EXCEPT
                                           !.load = @ - 100 * u.airtime_usage,
                                           !.connected_clients =
                                               IF InSeq(u.id, @) THEN RemoveFirst(@, u.id) ELSE @],
                                 ![host.alt] = [@ EXCEPT !.load = @ + 100 * u.airtime_usage]]
                    /\ Wrote(u.id, [u EXCEPT !.assigned_ap = aps[host.alt].id,
                                             !.connected_ap = aps[host.alt].id],
                             [host EXCEPT !.at = "append"])
              /\ pc' = pc
         [] host.at = "append" ->
              /\ aps' = [aps EXCEPT ![host.alt].connected_clients =
                                        Append(@, host.active[host.pu])]
              /\ At(pc, [host EXCEPT !.at = "load", !.alt = 0, !.pu = 0])
              /\ UNCHANGED clients
    /\ UNCHANGED <<assignments, tick, current_band, ap_killer, glog, last, drawn, queue>>

\* apply_greedy, one turn of the loop of line 443
StepConnect ==
    /\ pc = "connect"
    /\ IF host.i < Len(host.active)
       THEN /\ \E u \in {active_users[host.i + 1]} :
                  Wrote(u.id,
                        IF u.assigned_ap # None
                        THEN [u EXCEPT !.connected_ap = u.assigned_ap] ELSE u,
                        [host EXCEPT !.i = @ + 1])
            /\ pc' = pc
       ELSE /\ At("smooth", [host EXCEPT !.i = 0, !.at = "read"])
            /\ UNCHANGED clients
    /\ UNCHANGED <<aps, assignments, tick, current_band, ap_killer, glog, last, drawn, queue>>

\* apply_greedy, the loop of line 462, with new_loads as lines 453-459
\* computed it from active_users.  "read": prev_load (line 464); "load": the
\* store of line 469, after max(); "list": the store of line 471, after the
\* list is built.
StepSmooth ==
    /\ pc = "smooth"
    /\ CASE host.at = "read" ->
              /\ At(pc, [host EXCEPT !.at = "load", !.ld = aps[host.i + 1].load])
              /\ UNCHANGED aps
         [] host.at = "load" ->
              /\ \E us \in {active_users} :
                    aps' = [aps EXCEPT ![host.i + 1].load =
                               Smoothed(host.ld, InstantLoad(aps[host.i + 1], us, Indices(us)))]
              /\ At(pc, [host EXCEPT !.at = "list", !.ld = 0])
         [] host.at = "list" ->
              /\ \E us \in {active_users} :
                 \E mine \in {SelectSeq(us, LAMBDA u :
                                 (IF u.assigned_ap # None THEN u.assigned_ap
                                  ELSE u.nearest_ap) = aps[host.i + 1].id)} :
                    aps' = [aps EXCEPT ![host.i + 1].connected_clients =
                               [n \in 1..Len(mine) |-> mine[n].id]]
              /\ At(IF host.i + 1 < Len(aps) THEN pc ELSE "killer",
                    [Replaced(host, host.i + 1) EXCEPT
                        !.i = IF host.i + 1 < Len(aps) THEN @ + 1 ELSE 0,
                        !.at = IF host.i + 1 < Len(aps) THEN "read" ELSE "active",
                        !.active = IF host.i + 1 < Len(aps) THEN @ ELSE << >>])
    /\ UNCHANGED <<clients, assignments, tick, current_band, ap_killer, glog, last, drawn, queue>>

\* step().  "active": the balancer has returned and the tick is counted
\* (line 608), or an exception was caught (lines 610-613); line 616 reads
\* ap_killer.active, and with the killer withdrawn step() returns.
\* "rooms": one turn of the comprehension of line 617 over the floors of
\* the layout, which reads ap_killer.floor.
StepKiller ==
    /\ pc = "killer"
    /\ IF host.at = "active"
       THEN /\ tick' = IF host.caught THEN tick ELSE tick + 1
            /\ IF ap_killer.active
               THEN /\ At(pc, [host EXCEPT !.at = "rooms", !.i = 0, !.rooms = << >>])
                    /\ UNCHANGED last
               ELSE Returned("step")
       ELSE /\ At(IF host.i + 1 < Len(Levels) THEN pc ELSE "update",
                  [host EXCEPT
                     !.rooms = IF Levels[host.i + 1] = ap_killer.floor
                               THEN Append(@, Levels[host.i + 1]) ELSE @,
                     !.i = IF host.i + 1 < Len(Levels) THEN @ + 1 ELSE 0,
                     !.at = IF host.i + 1 < Len(Levels) THEN "rooms" ELSE "enter"])
            /\ UNCHANGED <<tick, last>>
    /\ UNCHANGED <<aps, clients, assignments, current_band, ap_killer, glog, drawn, queue>>

\* APKiller.update.  "enter": lines 59-64: nothing for a killer withdrawn
\* meanwhile; line 63 raises TypeError on a str, and step() with it; else
\* the killer moves (x and y are written with no call between) and, with no
\* rooms, line 79 takes its global point.  "clampx": the store of line 73;
\* "clampy": the store of line 74, and line 79.
StepUpdate ==
    /\ pc = "update"
    /\ CASE host.at = "enter" ->
              IF ~ap_killer.active
              THEN Returned("step") /\ UNCHANGED ap_killer
              ELSE IF ap_killer.vx_is_str
              THEN Returned("step_raised") /\ UNCHANGED ap_killer
              ELSE \E moved \in {[ap_killer EXCEPT
                                    !.x = Advanced(@, ap_killer.vx, KILLER_SPEED),
                                    !.y = Advanced(@, ap_killer.vy, KILLER_SPEED)]} :
                      /\ ap_killer' = moved
                      /\ IF host.rooms = << >>
                         THEN At("impact", [host EXCEPT
                                              !.i = 0, !.at = "floor",
                                              !.kg = to_global(moved.floor, moved.x, moved.y)])
                         ELSE At(pc, [host EXCEPT !.at = "clampx"])
                      /\ UNCHANGED last
         [] host.at = "clampx" ->
              /\ \E r \in {Room(host.rooms[1])} :
                    ap_killer' = [ap_killer EXCEPT !.x = Clamped(r.x + 8, r.x + r.width - 8, @)]
              /\ At(pc, [host EXCEPT !.at = "clampy"])
              /\ UNCHANGED last
         [] host.at = "clampy" ->
              /\ \E r \in {Room(host.rooms[1])} :
                 \E moved \in {[ap_killer EXCEPT
                                  !.y = Clamped(r.y + 8, r.y + r.height - 8, @)]} :
                    /\ ap_killer' = moved
                    /\ At("impact", [host EXCEPT
                                       !.i = 0, !.at = "floor", !.rooms = << >>,
                                       !.kg = to_global(moved.floor, moved.x, moved.y)])
              /\ UNCHANGED last
    /\ UNCHANGED <<aps, clients, assignments, tick, current_band, glog, drawn, queue>>

\* APKiller.update, the loop of line 81.  "floor": the next turn begins and
\* reads the killer's floor (line 82); "read": the AP is within the radius
\* and its load is read (line 92, before min()); "write": the store of line
\* 92.  After the loop step() returns.
StepImpact ==
    /\ pc = "impact"
    /\ IF host.i >= Len(aps)
       THEN Returned("step") /\ UNCHANGED aps
       ELSE CASE host.at = "floor" ->
                   /\ IF killer_hits(ap_killer.floor, host.kg, aps[host.i + 1])
                      THEN At(pc, [host EXCEPT !.at = "read"])
                      ELSE At(pc, [host EXCEPT !.i = @ + 1])
                   /\ UNCHANGED <<aps, last>>
              [] host.at = "read" ->
                   /\ At(pc, [host EXCEPT !.at = "write", !.ld = aps[host.i + 1].load])
                   /\ UNCHANGED <<aps, last>>
              [] host.at = "write" ->
                   /\ aps' = [aps EXCEPT ![host.i + 1].load =
                                 Min(100 * LOAD_MAX, host.ld + 100 * KILLER_LOAD)]
                   /\ At(pc, [host EXCEPT !.i = @ + 1, !.at = "floor", !.ld = 0])
                   /\ UNCHANGED last
    /\ UNCHANGED <<clients, assignments, tick, current_band, ap_killer, glog, drawn, queue>>

\* lifespan, line 106: sim.ready is set, half a second after the task of
\* simulator_loop was made, which has handed the first step() to the
\* executor by then (line 62); the requests are served from then on
HostReady ==
    /\ ~host.ready
    /\ host.begun > 0
    /\ host' = [host EXCEPT !.ready = TRUE]
    /\ UNCHANGED <<last, drawn, queue, pc>>
    /\ UnchangedEngine

\* a request is taken up, wherever the executor thread stands, when no other
\* handler is running
Accepted == host.ready /\ host.req.op = "none"

\* the requests other than /apkiller/deploy and /apkiller/floor/{level}
Served == Accepted /\ host.calls - host.deploys - host.floors < MaxHostCalls

\* the request has been answered
Answered(h) == [h EXCEPT !.req = NoRequest]

\* get_state: the place after the user loop (line 686): the AP-killer's
\* entry (line 710), or the return
GsKiller(r) ==
    IF ap_killer.active THEN [r EXCEPT !.at = "kg", !.j = 0, !.n = 0, !.f = 0]
    ELSE [r EXCEPT !.at = "done", !.j = 0, !.n = 0, !.f = 0]

\* get_state: the place after visible_users is built (line 681)
GsUsers(r) ==
    IF r.vis = << >> THEN GsKiller(r)
    ELSE [r EXCEPT !.at = "user", !.j = 0, !.n = 1, !.f = 1, !.cur = NoCur]

\* get_state: the place after the turn of the comprehension of line 681 for
\* the user at place j of self.clients
GsVisible(r, j) ==
    IF j < Len(clients) THEN [r EXCEPT !.at = "assigned", !.j = j + 1]
    ELSE GsUsers(r)

\* get_nearest_ap_id: the place after the turn of the loop of line 35 for
\* AP j: the next AP on the killer's floor, or the return of get_state
GsNearest(r, j) ==
    LET rest == {m \in (j + 1)..Len(aps) : aps[m].floor = ap_killer.floor}
    IN  IF rest # {}
        THEN [r EXCEPT !.at = "knear", !.j = CHOOSE m \in rest : \A o \in rest : m <= o]
        ELSE [r EXCEPT
                !.at = "done", !.j = 0,
                !.clients = Append(@, KillerEntry(ap_killer, r.kxy, r.kg, r.kbest.id))]

\* get_state: the f-th read of a user's fields: x and y for to_global (line
\* 687), then the fields of the entry (lines 693-703)
FieldRead(cur, f, u) ==
    CASE f = 1 -> [cur EXCEPT !.xg = u.x]
      [] f = 2 -> [cur EXCEPT !.yg = u.y]
      [] f = 3 -> [cur EXCEPT !.x = u.x]
      [] f = 4 -> [cur EXCEPT !.y = u.y]
      [] f = 5 -> [cur EXCEPT !.vx = u.vx]
      [] f = 6 -> [cur EXCEPT !.vy = u.vy]
      [] f = 7 -> [cur EXCEPT !.nearest_ap = u.nearest_ap]
      [] f = 8 -> [cur EXCEPT !.assigned_ap = u.assigned_ap]
      [] f = 9 -> [cur EXCEPT !.connected_ap = u.connected_ap]
      [] f = 10 -> [cur EXCEPT !.RSSI = u.RSSI]

\* get_state from one switch point to the next read of a field the thread
\* writes.  "count", "load": the AP's user_count and load (lines 668, 669;
\* the other fields of the entry are written by handlers only); "assigned",
\* "nearest": the tests of line 683; "user": one field of a user; "kg",
\* "kxy": the killer's x and y for to_global (line 711) and for the entry
\* (lines 721-722); "knear": x and y in one turn of get_nearest_ap_id
GetStateTurn(r) ==
    CASE r.at = "count" -> [r EXCEPT !.at = "load", !.cnt = aps[r.j].user_count]
      [] r.at = "load" ->
            LET out == [r EXCEPT !.cnt = 0,
                                 !.aps = Append(@, ApEntry(aps[r.j], current_band,
                                                           r.cnt, aps[r.j].load))]
            IN  IF r.j < Len(aps) THEN [out EXCEPT !.at = "count", !.j = @ + 1]
                ELSE GsVisible(out, 0)
      [] r.at = "assigned" ->
            IF clients[r.j].assigned_ap # None
            THEN GsVisible([r EXCEPT !.vis = Append(@, r.j)], r.j)
            ELSE [r EXCEPT !.at = "nearest"]
      [] r.at = "nearest" ->
            IF clients[r.j].nearest_ap # None
            THEN GsVisible([r EXCEPT !.vis = Append(@, r.j)], r.j)
            ELSE GsVisible(r, r.j)
      [] r.at = "user" ->
            LET u == clients[r.vis[r.n]]
                cur == FieldRead(r.cur, r.f, u)
            IN  IF r.f < 10 THEN [r EXCEPT !.cur = cur, !.f = @ + 1]
                ELSE LET out == [r EXCEPT !.cur = NoCur,
                                          !.clients = Append(@, UserEntry(u, cur))]
                     IN  IF r.n < Len(r.vis) THEN [out EXCEPT !.n = @ + 1, !.f = 1]
                         ELSE GsKiller(out)
      [] r.at = "kg" ->
            [r EXCEPT !.at = "kxy",
                      !.kg = to_global(ap_killer.floor, ap_killer.x, ap_killer.y)]
      [] r.at = "kxy" ->
            GsNearest([r EXCEPT !.kxy = <<ap_killer.x, ap_killer.y>>,
                                !.kbest = [id |-> None, d2 |-> -1]], 0)
      [] r.at = "knear" ->
            LET d2 == D2(ap_killer.x, ap_killer.y, aps[r.j].x, aps[r.j].y)
                nearer == /\ IsFinite(ap_killer.x) /\ IsFinite(ap_killer.y)
                          /\ (r.kbest.d2 = -1 \/ d2 < r.kbest.d2)
            IN  GsNearest([r EXCEPT !.kbest = IF nearer THEN [id |-> aps[r.j].id, d2 |-> d2]
                                              ELSE @], r.j)

\* GET /state: sim.get_state() is taken up when the request arrives and goes
\* on from switch point to switch point, the executor thread running
\* meanwhile; the snapshot is built from the live engine at whatever points
\* the thread has reached.  The first request during a tick is followed.
HostGetState ==
    /\ \/ /\ Served
          /\ pc # "idle"
          /\ host.mid = << >>
          /\ host.req.op = "none"
       \/ host.req.op = "get_state"
    /\ \E r \in {GetStateTurn(IF host.req.op = "none"
                              THEN [NoRequest EXCEPT !.op = "get_state", !.at = "count", !.j = 1]
                              ELSE host.req)} :
          host' = IF r.at = "done"
                  THEN [host EXCEPT
                          !.req = NoRequest,
                          !.calls = IF host.req.op = "none" THEN @ + 1 ELSE @,
                          !.mid = << [aps |-> r.aps, clients |-> r.clients,
                                      assignments |-> assignments, alarms |-> << >>] >>]
                  ELSE [host EXCEPT !.req = r,
                                    !.calls = IF host.req.op = "none" THEN @ + 1 ELSE @]
    /\ UNCHANGED <<last, drawn, queue, pc>>
    /\ UnchangedEngine

HostAddUser ==
    /\ Served
    /\ AddUserCall
    /\ At(pc, [host EXCEPT !.calls = @ + 1])

\* remove_user_from_floor: the place after the turn of the loop of line 566
\* for AP j; after the last turn the handler returns
AfterRemoved(h, j) ==
    IF j < Len(aps)
    THEN [h EXCEPT !.req = [@ EXCEPT !.at = "get", !.j = j + 1, !.ld = 0,
                                     !.held = [live |-> TRUE, was |-> << >>]]]
    ELSE Answered(h)

\* POST /floor/{floor}/remove_user, lines 549-563: the user is chosen,
\* removed from self.clients and from the assignments; the dict removed
\* stays in the thread's hands where the thread has a reference to it
HostRemoveUser ==
    /\ Served
    /\ Len(HostClients) + drawn - Len(clients) < MaxRemoved
    /\ \E i \in RemoveChoices(clients) :
       \E user \in {clients[i]} :
          /\ clients' = RemoveAt(clients, FirstEqual(clients, user))
          /\ assignments' = [uid \in (DOMAIN assignments) \ {user.id} |-> assignments[uid]]
          /\ At(pc, [host EXCEPT
                       !.calls = @ + 1,
                       !.gone = Append(@, user),
                       !.req = [NoRequest EXCEPT !.op = "remove", !.at = "get", !.j = 1,
                                                 !.uid = user.id,
                                                 !.airtime = user.airtime_usage]])
    /\ last' = "remove_user"
    /\ UNCHANGED <<aps, tick, current_band, ap_killer, glog, drawn, queue>>

\* remove_user_from_floor, the loop of line 566.  "get": ap.get returns the
\* AP's list (line 567); "in": the id is looked for in that list and removed
\* from the list the AP has now (line 568), which raises ValueError when the
\* thread has put a list without the id in its place meanwhile: line 576
\* catches it and the handler returns; "read": the AP's load is read (line
\* 571); "write": the store of line 569, after max()
HostRemoveUserAp ==
    /\ host.req.op = "remove"
    /\ \E r \in {host.req} :
       CASE r.at = "get" ->
              /\ At(pc, [host EXCEPT !.req.at = "in"])
              /\ UNCHANGED aps
         [] r.at = "in" ->
              IF InSeq(r.uid, IF r.held.live THEN aps[r.j].connected_clients ELSE r.held.was)
              THEN IF InSeq(r.uid, aps[r.j].connected_clients)
                   THEN /\ aps' = [aps EXCEPT ![r.j].connected_clients = RemoveFirst(@, r.uid)]
                        /\ At(pc, [host EXCEPT !.req.at = "read",
                                               !.req.held = [live |-> TRUE, was |-> << >>]])
                   ELSE /\ At(pc, Answered(host))
                        /\ UNCHANGED aps
              ELSE /\ At(pc, AfterRemoved(host, r.j))
                   /\ UNCHANGED aps
         [] r.at = "read" ->
              /\ At(pc, [host EXCEPT !.req.at = "write", !.req.ld = aps[r.j].load])
              /\ UNCHANGED aps
         [] r.at = "write" ->
              /\ aps' = [aps EXCEPT ![r.j].load = Max(0, r.ld - 100 * r.airtime)]
              /\ At(pc, AfterRemoved(host, r.j))
    /\ UNCHANGED <<clients, assignments, tick, current_band, ap_killer, glog, last, drawn, queue>>

HostKillerDeploy ==
    /\ Accepted
    /\ host.deploys < MaxHostDeploys
    /\ KillerDeployCall
    /\ At(pc, [host EXCEPT !.calls = @ + 1, !.deploys = @ + 1])

HostKillerWithdraw == Served /\ KillerWithdrawCall /\ At(pc, [host EXCEPT !.calls = @ + 1])

HostKillerFloor ==
    /\ Accepted
    /\ host.floors < MaxHostFloors
    /\ KillerFloorCall
    /\ At(pc, [host EXCEPT !.calls = @ + 1, !.floors = @ + 1])

\* POST /setband, one turn of the loop of line 259: lines 260-261; line 261
\* raises KeyError for a band that is no key of band_coverage, with the AP's
\* band written; after the last turn the handler returns
SetBandTurn(h, band, j) ==
    /\ aps' = [aps EXCEPT ![j] =
                 IF band \in Bands
                 THEN [@ EXCEPT !.band = band, !.coverage_radius = band_coverage(band)]
                 ELSE [@ EXCEPT !.band = band]]
    /\ At(pc, IF band \in Bands /\ j < Len(aps)
              THEN [h EXCEPT !.req = [NoRequest EXCEPT !.op = "setband", !.band = band,
                                                       !.j = j]]
              ELSE Answered(h))
    /\ last' = IF band \in Bands THEN "setband" ELSE "setband_raised"

\* POST /setband, lines 252-261: the band is read from the request and
\* written to current_band, and the first turn of the loop follows with no
\* call between
HostSetBand ==
    /\ Served
    /\ \E band \in BandInputs :
          /\ current_band' = band
          /\ SetBandTurn([host EXCEPT !.calls = @ + 1], band, 1)
    /\ UNCHANGED <<clients, assignments, tick, ap_killer, glog, drawn, queue>>

\* POST /setband, a later turn of the loop, the executor thread running
\* meanwhile
HostSetBandAp ==
    /\ host.req.op = "setband"
    /\ SetBandTurn(host, host.req.band, host.req.j + 1)
    /\ UNCHANGED <<clients, assignments, tick, current_band, ap_killer, glog, drawn, queue>>

\* POST /apkiller/move, line 246: vx is stored; data.get of line 247 is
\* called next
HostKillerMove ==
    /\ Served
    /\ \E body \in MoveBodies :
          ap_killer' = [move_apkiller(ap_killer, body) EXCEPT !.vy = ap_killer.vy]
    /\ At(pc, [host EXCEPT !.calls = @ + 1, !.req = [NoRequest EXCEPT !.op = "move"]])
    /\ last' = "move"
    /\ UNCHANGED <<aps, clients, assignments, tick, current_band, glog, drawn, queue>>

\* POST /apkiller/move, line 247: vy is stored (0 * 6 for a body without vy)
HostKillerMoveVy ==
    /\ host.req.op = "move"
    /\ ap_killer' = [ap_killer EXCEPT !.vy = 0]
    /\ At(pc, Answered(host))
    /\ UNCHANGED <<aps, clients, assignments, tick, current_band, glog, last, drawn, queue>>

\* the program: the tick loop of main.py and its request handlers
Next ==
    \/ HostStepBegin
    \/ StepMove
    \/ StepRssi
    \/ StepReset
    \/ StepCount
    \/ StepActive
    \/ StepDecay
    \/ StepClean
    \/ StepAccumulate
    \/ StepOverloaded
    \/ StepEvict
    \/ StepConnect
    \/ StepSmooth
    \/ StepKiller
    \/ StepUpdate
    \/ StepImpact
    \/ HostReady
    \/ HostGetState
    \/ HostAddUser
    \/ HostRemoveUser
    \/ HostRemoveUserAp
    \/ HostKillerDeploy
    \/ HostKillerWithdraw
    \/ HostKillerFloor
    \/ HostKillerMove
    \/ HostKillerMoveVy
    \/ HostSetBand
    \/ HostSetBandAp

Spec == HostStart /\ [][Next]_vars

-----------------------------------------------------------------------------
(* Stand-alone calls of redistribute() and apply_mcmf() on given inputs     *)
(* (tests/test_greedy.py calls redistribute() on hand-made assignments)     *)

\* the AP list a caller hands to GreedyRedistributor / MCMFEngine: small
\* capacities, three APs on floor 1 and one on floor 2
InputAp(id, floor, x, max_users) ==
    [id |-> id, floor |-> floor, x |-> x, y |-> 0, airtime_capacity |-> 6,
     max_users |-> max_users, interference_score |-> 10, load |-> 0,
     connected_clients |-> << >>, user_count |-> 0, band |-> None,
     coverage_radius |-> DEFAULT_COVERAGE]

InputAps ==
    << InputAp("AP_1A", 1, 0, 2), InputAp("AP_1B", 1, 300, 1),
       InputAp("AP_2A", 2, 0, 2), InputAp("AP_1C", 1, 190, 2) >>


\* the users of an input: floor, position, airtime, assignment, RSSI
Templates ==
    { [floor |-> 1, x |-> 50, y |-> 0, airtime_usage |-> 5, assigned_ap |-> "AP_1A", RSSI |-> -67],
      [floor |-> 1, x |-> 140, y |-> 0, airtime_usage |-> 5, assigned_ap |-> "AP_1A", RSSI |-> -77],
      [floor |-> 1, x |-> 140, y |-> 0, airtime_usage |-> 2, assigned_ap |-> "AP_1A", RSSI |-> -77],
      [floor |-> 1, x |-> 300, y |-> 0, airtime_usage |-> 5, assigned_ap |-> "AP_1B", RSSI |-> -40],
      [floor |-> 2, x |-> 50, y |-> 0, airtime_usage |-> 5, assigned_ap |-> "AP_1A", RSSI |-> -67],
      [floor |-> 2, x |-> 140, y |-> 0, airtime_usage |-> 5, assigned_ap |-> "AP_2A", RSSI |-> -77],
      [floor |-> 1, x |-> 140, y |-> 0, airtime_usage |-> 5, assigned_ap |-> None, RSSI |-> -95] }

InputUser(t, n) ==
    [id |-> UserId(n), floor |-> t.floor, x |-> t.x, y |-> t.y, vx |-> 0, vy |-> 0,
     airtime_usage |-> t.airtime_usage, nearest_ap |-> t.assigned_ap,
     assigned_ap |-> t.assigned_ap, connected_ap |-> t.assigned_ap, RSSI |-> t.RSSI]

\* stale: load and connected_clients of the first AP are left over from before;
\* counted: user_count is what update_ap_load would set, else the 0 of __init__
InputApList(cl, stale, counted, radius) ==
    LET counts == update_ap_load(InputAps, cl)
    IN  [j \in 1..Len(InputAps) |->
            [InputAps[j] EXCEPT
                !.coverage_radius = radius,
                !.user_count = IF counted THEN counts[j].user_count ELSE 0,
                !.load = IF stale /\ j = 1 THEN 48300 ELSE 0,
                !.connected_clients = IF stale /\ j = 1 THEN <<"User_9">> ELSE << >>]]

InitCall ==
    \E n \in 1..MaxInputUsers :
       \E ts \in [1..n -> Templates], stale \in BOOLEAN, counted \in BOOLEAN,
          radius \in {DEFAULT_COVERAGE, band_coverage("5"), band_coverage("6")} :
          /\ clients = [i \in 1..n |-> InputUser(ts[i], i)]
          /\ aps = InputApList(clients, stale, counted, radius)
          /\ assignments = EmptyDict
          /\ tick = 0
          /\ current_band = "5"
          /\ ap_killer = InitKiller
          /\ glog = EmptyLog
          /\ last = "input"
          /\ drawn = 0
          /\ queue = QueueInit
          /\ pc = "idle"
          /\ host = HostInit

\* GreedyRedistributor(sim.aps, sim.clients).redistribute()
RunRedistribute ==
    /\ last = "input"
    /\ \E r \in {redistribute(aps, clients, Indices(clients))} :
          /\ aps' = r.aps
          /\ clients' = r.cl
          /\ glog' = r.log
    /\ last' = "redistribute"
    /\ UNCHANGED <<assignments, tick, current_band, ap_killer, drawn, queue, pc, host>>

\* sim.apply_mcmf(); the solver, when the guard lets the call reach it, raises
\* or returns one of its optimal flows
RunApplyMcmf ==
    /\ last = "input"
    /\ \E cl \in {update_rssi(clients, aps, current_band)} :
       \E apl \in {update_ap_load(aps, cl)} :
       \E guard \in {OverloadedInRawCount(apl)} :
       \E fails \in IF guard THEN {FALSE} ELSE BOOLEAN :
       \E m \in IF guard \/ fails THEN {<< >>} ELSE max_flow_min_cost(cl, apl) :
       \E r \in {apply_mcmf(aps, clients, assignments, current_band, fails, m)} :
          /\ aps' = r.aps
          /\ clients' = r.cl
          /\ assignments' = r.assignments
          /\ glog' = r.log
          /\ last' = r.path
    /\ UNCHANGED <<tick, current_band, ap_killer, drawn, queue, pc, host>>

\* a second redistribute() on what the first one left
RunRedistributeAgain ==
    /\ last = "redistribute"
    /\ \E r \in {redistribute(aps, clients, Indices(clients))} :
          /\ aps' = r.aps
          /\ clients' = r.cl
          /\ glog' = r.log
    /\ last' = "redistribute_again"
    /\ UNCHANGED <<assignments, tick, current_band, ap_killer, drawn, queue, pc, host>>

NextCall ==
    \/ RunRedistribute
    \/ RunRedistributeAgain
    \/ RunApplyMcmf

SpecCall == InitCall /\ [][NextCall]_vars

-----------------------------------------------------------------------------
(* The engine with the AP-killer steered through POST /apkiller/move *)

\* a caller takes the snapshot of the engine as it is
KillerGetState ==
    /\ pc = "idle"
    /\ host' = [host EXCEPT !.post = <<get_state(Sim)>>]
    /\ last' = "get_state"
    /\ UNCHANGED <<drawn, queue, pc>>
    /\ UnchangedEngine

\* the rooms reposition_center is called with: none, the room of the users
\* (not a corridor), and that room with a corridor before it
RoomInputs ==
    { << >>,
      << [corridor |-> FALSE, x |-> Room(7).x, y |-> Room(7).y,
          width |-> Room(7).width, height |-> Room(7).height] >>,
      << [corridor |-> TRUE, x |-> 0, y |-> 50, width |-> 400, height |-> 20],
         [corridor |-> FALSE, x |-> Room(7).x, y |-> Room(7).y,
          width |-> Room(7).width, height |-> Room(7).height] >> }

\* a caller puts the killer into the corridor (no code of the repository
\* calls reposition_center)
KillerReposition ==
    /\ Called
    /\ \E rooms \in RoomInputs : ap_killer' = reposition_center(ap_killer, rooms)
    /\ last' = "reposition"
    /\ UNCHANGED <<aps, clients, assignments, tick, current_band, glog, drawn, queue>>

NextKiller ==
    \/ Step
    \/ KillerDeploy
    \/ KillerWithdraw
    \/ KillerFloor
    \/ KillerMove
    \/ KillerReposition
    \/ KillerGetState

SpecKiller == Init /\ [][NextKiller]_vars

-----------------------------------------------------------------------------
(* Stand-alone calls of MCMFEngine(users, aps).run() on a snapshot *)

\* the users of a snapshot; floor 3 has no AP
McmfTemplates ==
    { [floor |-> 1, x |-> 50, y |-> 0, airtime_usage |-> 5, assigned_ap |-> None, RSSI |-> -95],
      [floor |-> 1, x |-> 140, y |-> 0, airtime_usage |-> 5, assigned_ap |-> None, RSSI |-> -95],
      [floor |-> 1, x |-> 300, y |-> 0, airtime_usage |-> 2, assigned_ap |-> None, RSSI |-> -95],
      [floor |-> 2, x |-> 50, y |-> 0, airtime_usage |-> 5, assigned_ap |-> None, RSSI |-> -95],
      [floor |-> 3, x |-> 50, y |-> 0, airtime_usage |-> 5, assigned_ap |-> None, RSSI |-> -95] }

\* the airtime capacities of a snapshot's APs: 1 gives a sink capacity of 1
McmfCapacities == {1, 6}

InitMcmf ==
    \E n \in 1..MaxInputUsers :
       \E ts \in [1..n -> McmfTemplates], stale \in BOOLEAN,
          capacity \in [1..Len(InputAps) -> McmfCapacities] :
          /\ clients = [i \in 1..n |-> InputUser(ts[i], i)]
          /\ aps = [j \in 1..Len(InputAps) |->
                      [InputApList(clients, stale, FALSE, DEFAULT_COVERAGE)[j]
                          EXCEPT !.airtime_capacity = capacity[j]]]
          /\ assignments = EmptyDict
          /\ tick = 0
          /\ current_band = "5"
          /\ ap_killer = InitKiller
          /\ glog = EmptyLog
          /\ last = "input"
          /\ drawn = 0
          /\ queue = QueueInit
          /\ pc = "idle"
          /\ host = HostInit

\* assignments = MCMFEngine(clients, aps).run(); a raise leaves no result
RunMcmf ==
    /\ last = "input"
    /\ \E solver_raises \in BOOLEAN :
       \E m \in IF solver_raises THEN {<< >>} ELSE max_flow_min_cost(clients, aps) :
       \E res \in {run(clients, aps, solver_raises, m)} :
          /\ assignments' = IF res.raised THEN assignments ELSE res.assignments
          /\ last' = IF res.raised THEN "run_raised" ELSE "run_returned"
          /\ glog' = [EmptyLog EXCEPT !.solver = IF solver_raises THEN "failed" ELSE "solved"]
    /\ UNCHANGED <<aps, clients, tick, current_band, ap_killer, drawn, queue, pc, host>>

NextMcmf == RunMcmf

SpecMcmf == InitMcmf /\ [][NextMcmf]_vars

-----------------------------------------------------------------------------
(* Stand-alone calls of GraphModel(users, aps).build_graph(), and of the first
   two steps of MCMFEngine(users, aps).run() *)

MaxGraphUsers == 2

\* airtime capacities of a snapshot's APs; 0 gives a dynamic capacity of 0
GraphCapacities == {0, 1, 6}

\* user counts of a snapshot's APs; 2 lifts the dynamic capacity above the base
GraphUserCounts == {0, 2}

InitGraph ==
    \E n \in 1..MaxGraphUsers :
       \E ts \in [1..n -> McmfTemplates], count \in GraphUserCounts,
          capacity \in [1..Len(InputAps) -> GraphCapacities] :
          /\ clients = [i \in 1..n |-> InputUser(ts[i], i)]
          /\ aps = [j \in 1..Len(InputAps) |->
                      [InputAps[j] EXCEPT !.airtime_capacity = capacity[j],
                                          !.user_count = count]]
          /\ assignments = EmptyDict
          /\ tick = 0
          /\ current_band = "5"
          /\ ap_killer = InitKiller
          /\ glog = EmptyLog
          /\ last = "input"
          /\ drawn = 0
          /\ queue = QueueInit
          /\ pc = "idle"
          /\ host = HostInit

\* G = GraphModel(clients, aps).build_graph(); glog.graph is G
RunBuildGraph ==
    /\ last = "input"
    /\ glog' = [EmptyLog EXCEPT !.graph = build_graph(clients, aps)]
    /\ last' = "build_graph"
    /\ UNCHANGED <<aps, clients, assignments, tick, current_band, ap_killer, drawn, queue, pc, host>>

\* run() up to the solver call; glog.graph is the graph handed to the solver
RunSolvedGraph ==
    /\ last = "input"
    /\ glog' = [EmptyLog EXCEPT !.graph = solved_graph(clients, aps)]
    /\ last' = "solved_graph"
    /\ UNCHANGED <<aps, clients, assignments, tick, current_band, ap_killer, drawn, queue, pc, host>>

NextGraph ==
    \/ RunBuildGraph
    \/ RunSolvedGraph

SpecGraph == InitGraph /\ [][NextGraph]_vars

-----------------------------------------------------------------------------
(* Stand-alone calls of redistribute() on inputs with full and overloaded    *)
(* APs next to the overloaded one                                           *)

MaxGreedyUsers == 3

\* the users of an input: on AP_1A near and far, on AP_1B at the AP and far
\* from it, a heavy user on AP_1C, an unassigned user, a user of floor 2
GreedyTemplates ==
    { [floor |-> 1, x |-> 50, y |-> 0, airtime_usage |-> 5, assigned_ap |-> "AP_1A", RSSI |-> -67],
      [floor |-> 1, x |-> 140, y |-> 0, airtime_usage |-> 5, assigned_ap |-> "AP_1A", RSSI |-> -77],
      [floor |-> 1, x |-> 300, y |-> 0, airtime_usage |-> 5, assigned_ap |-> "AP_1B", RSSI |-> -40],
      [floor |-> 1, x |-> 140, y |-> 0, airtime_usage |-> 5, assigned_ap |-> "AP_1B", RSSI |-> -78],
      [floor |-> 1, x |-> 140, y |-> 0, airtime_usage |-> 7, assigned_ap |-> "AP_1C", RSSI |-> -67],
      [floor |-> 1, x |-> 140, y |-> 0, airtime_usage |-> 5, assigned_ap |-> None, RSSI |-> -95],
      [floor |-> 2, x |-> 50, y |-> 0, airtime_usage |-> 5, assigned_ap |-> "AP_2A", RSSI |-> -67] }

InitGreedy ==
    \E n \in 1..MaxGreedyUsers :
       \E ts \in [1..n -> GreedyTemplates], counted \in BOOLEAN,
          radius \in {DEFAULT_COVERAGE, band_coverage("5")} :
          /\ clients = [i \in 1..n |-> InputUser(ts[i], i)]
          /\ aps = InputApList(clients, FALSE, counted, radius)
          /\ assignments = EmptyDict
          /\ tick = 0
          /\ current_band = "5"
          /\ ap_killer = InitKiller
          /\ glog = EmptyLog
          /\ last = "input"
          /\ drawn = 0
          /\ queue = QueueInit
          /\ pc = "idle"
          /\ host = HostInit

NextGreedy ==
    \/ RunRedistribute
    \/ RunRedistributeAgain

SpecGreedy == InitGreedy /\ [][NextGreedy]_vars

-----------------------------------------------------------------------------
(* Stand-alone calls of find_alternative_ap(user) on one user and an AP list *)

\* the user handed to find_alternative_ap: floor, position, current AP
FindTemplates ==
    [floor : {1, 2}, x : {50, 140, 300}, y : {0}, airtime_usage : {5},
     assigned_ap : {None, "AP_1A", "AP_1B"}, RSSI : {-77}]

\* the loads (in hundredths) of the floor-1 APs of an input
FindLoads == {500, 600, 800}

\* x of the third AP: 190, or 100 (as far from a user at 50 as the first AP)
FindThirdApX == {190, 100}

InitFind ==
    \E t \in FindTemplates, load \in [1..Len(InputAps) -> FindLoads],
       count \in {0, 2}, x3 \in FindThirdApX,
       radius \in {DEFAULT_COVERAGE, band_coverage("6")} :
       /\ load[3] = 500
       /\ clients = << InputUser(t, 1) >>
       /\ aps = [j \in 1..Len(InputAps) |->
                   [InputAps[j] EXCEPT !.load = load[j], !.user_count = count,
                                       !.coverage_radius = radius,
                                       !.x = IF j = 4 THEN x3 ELSE @]]
       /\ assignments = EmptyDict
       /\ tick = 0
       /\ current_band = "5"
       /\ ap_killer = InitKiller
       /\ glog = EmptyLog
       /\ last = "input"
       /\ drawn = 0
       /\ queue = QueueInit
       /\ pc = "idle"
       /\ host = HostInit

\* GreedyRedistributor(aps, clients).find_alternative_ap(clients[0]);
\* glog.found is the id of the AP returned, or none
RunFindAlternative ==
    /\ last = "input"
    /\ \E k \in {find_alternative_ap(clients[1], aps)} :
          glog' = [EmptyLog EXCEPT !.found = IF k = 0 THEN None ELSE aps[k].id]
    /\ last' = "find_alternative_ap"
    /\ UNCHANGED <<aps, clients, assignments, tick, current_band, ap_killer, drawn, queue, pc, host>>

NextFind == RunFindAlternative

SpecFind == InitFind /\ [][NextFind]_vars

-----------------------------------------------------------------------------
(* A UserPriorityQueue driven by pushes and pops *)

MaxPushes == 4

\* the priorities pushed: abs(RSSI) of two signal strengths
QueuePriorities == {60, 70}

\* q.push(priority, payload): the n-th push carries the payload UserId(n)
QueuePush ==
    /\ queue.pushed < MaxPushes
    /\ \E priority \in QueuePriorities :
          queue' = [queue EXCEPT !.pq = push(queue.pq, priority, UserId(queue.pushed + 1)),
                                 !.pushed = queue.pushed + 1]
    /\ last' = "push"
    /\ UNCHANGED <<drawn, pc, host>>
    /\ UnchangedEngine

\* q.pop(), on an empty queue too
QueuePop ==
    /\ \E r \in {pop(queue.pq)} :
          queue' = [queue EXCEPT !.pq = r.pq, !.returned = r.user]
    /\ last' = "pop"
    /\ UNCHANGED <<drawn, pc, host>>
    /\ UnchangedEngine

\* q.clear()
QueueClear ==
    /\ queue' = [queue EXCEPT !.pq = clear(queue.pq)]
    /\ last' = "clear"
    /\ UNCHANGED <<drawn, pc, host>>
    /\ UnchangedEngine

NextQueue ==
    \/ QueuePush
    \/ QueuePop
    \/ QueueClear

SpecQueue == Init /\ [][NextQueue]_vars

-----------------------------------------------------------------------------
(* Stand-alone calls of dynamic_capacity() on an AP whose user count grows *)

MaxUserCount == 12

\* the base capacities (ap["airtime_capacity"]) of the inputs
CapacityBases == {-6, 0, 1, 6, 30, 100}

InitCapacity ==
    \E base \in CapacityBases, count \in 0..MaxUserCount :
       /\ aps = << [InputAps[1] EXCEPT !.airtime_capacity = base, !.user_count = count] >>
       /\ clients = << >>
       /\ assignments = EmptyDict
       /\ tick = 0
       /\ current_band = "5"
       /\ ap_killer = InitKiller
       /\ glog = EmptyLog
       /\ last = "input"
       /\ drawn = 0
       /\ queue = QueueInit
       /\ pc = "idle"
       /\ host = HostInit

\* dynamic_capacity(ap) for each AP; glog.capacity holds the values returned
RunCapacity ==
    /\ last = "input"
    /\ glog' = [EmptyLog EXCEPT !.capacity = [j \in 1..Len(aps) |-> dynamic_capacity(aps[j])]]
    /\ last' = "dynamic_capacity"
    /\ UNCHANGED <<aps, clients, assignments, tick, current_band, ap_killer, drawn, queue, pc, host>>

\* one more active user on the AP (update_ap_load: ap["user_count"] += 1),
\* then dynamic_capacity(ap) again
RunCapacityNextUser ==
    /\ last = "dynamic_capacity"
    /\ \E j \in 1..Len(aps) :
          /\ aps[j].user_count < MaxUserCount
          /\ \E apl \in {[aps EXCEPT ![j].user_count = aps[j].user_count + 1]} :
                /\ aps' = apl
                /\ glog' = [EmptyLog EXCEPT
                              !.capacity = [k \in 1..Len(apl) |-> dynamic_capacity(apl[k])]]
    /\ last' = "dynamic_capacity"
    /\ UNCHANGED <<clients, assignments, tick, current_band, ap_killer, drawn, queue, pc, host>>

NextCapacity ==
    \/ RunCapacity
    \/ RunCapacityNextUser

SpecCapacity == InitCapacity /\ [][NextCapacity]_vars

-----------------------------------------------------------------------------
(* Stand-alone calls of update_rssi() on users, APs and a current band *)

MaxRssiUsers == 2

\* the users before the call: floor (3 has no AP), position, assignment held
RssiTemplates ==
    [floor : {1}, x : {50, 140, 300}, y : {0}, airtime_usage : {5},
     assigned_ap : {None, "AP_1A"}, RSSI : {-60}]
    \cup [floor : {2}, x : {50, 140, 600}, y : {0}, airtime_usage : {5},
          assigned_ap : {None, "AP_1A"}, RSSI : {-60}]
    \cup [floor : {3}, x : {50}, y : {0}, airtime_usage : {5},
          assigned_ap : {None, "AP_1A"}, RSSI : {-60}]

\* the "band" key of each AP: absent, or a band of its own
InitRssi ==
    \E n \in 1..MaxRssiUsers :
       \E ts \in [1..n -> RssiTemplates], band \in Bands,
          apband \in [1..Len(InputAps) -> {None, "6"}] :
          /\ clients = [i \in 1..n |-> InputUser(ts[i], i)]
          /\ aps = [j \in 1..Len(InputAps) |-> [InputAps[j] EXCEPT !.band = apband[j]]]
          /\ assignments = EmptyDict
          /\ tick = 0
          /\ current_band = band
          /\ ap_killer = InitKiller
          /\ glog = EmptyLog
          /\ last = "input"
          /\ drawn = 0
          /\ queue = QueueInit
          /\ pc = "idle"
          /\ host = HostInit

\* sim.update_rssi(); host.pre keeps the snapshot taken before the call
RunUpdateRssi ==
    /\ last = "input"
    /\ clients' = update_rssi(clients, aps, current_band)
    /\ host' = [host EXCEPT !.pre = <<get_state(Sim)>>]
    /\ last' = "update_rssi"
    /\ UNCHANGED <<aps, assignments, tick, current_band, ap_killer, glog, drawn, queue, pc>>

NextRssi == RunUpdateRssi

SpecRssi == InitRssi /\ [][NextRssi]_vars

-----------------------------------------------------------------------------
(* Properties *)

AssignedTo(j) == {i \in 1..Len(clients) : clients[i].assigned_ap = aps[j].id}

ConnectedSet(j) == {aps[j].connected_clients[n] : n \in 1..Len(aps[j].connected_clients)}

AirtimeOf(j) ==
    LET mine == SelectSeq(Indices(clients), LAMBDA i : clients[i].assigned_ap = aps[j].id)
    IN  SeqSum([n \in 1..Len(mine) |-> clients[mine[n]].airtime_usage])

\* C1: whatever steps, additions and removals were run, a user with an
\* assigned AP is assigned to an existing AP of its own floor.
C1_FloorSafety ==
    \A i \in 1..Len(clients) :
        clients[i].assigned_ap # None =>
            \E j \in 1..Len(aps) :
                aps[j].id = clients[i].assigned_ap /\ aps[j].floor = clients[i].floor

\* a step has run with users of both floors in coverage
C1_Witness ==
    /\ last = "step"
    /\ \E i, k \in 1..Len(clients) :
          /\ clients[i].floor = 7 /\ clients[i].assigned_ap # None
          /\ clients[k].floor = 8 /\ clients[k].assigned_ap # None

\* C2 (as claimed): after a completed step() every user id is a key of the
\* assignment mapping of get_state()'s output.
C2_EveryUserInAssignments ==
    last = "step" =>
        \A i \in 1..Len(clients) : clients[i].id \in DOMAIN get_state(Sim).assignments

\* the connected_clients of every AP, as a set, is the set of ids of the
\* users whose assigned_ap is that AP
ConnectedView ==
    \A j \in 1..Len(aps) : ConnectedSet(j) = {clients[i].id : i \in AssignedTo(j)}

\* C3 (as claimed): at the end of every completed step() the connected_clients
\* of every AP, as a set, is the set of ids of the users whose assigned_ap is
\* that AP, and an add_user_to_floor or remove_user_from_floor run on an
\* engine for which this holds leaves it holding.
C3_ConnectedView ==
    [][/\ last' = "step" => ConnectedView'
       /\ (ConnectedView /\ last' \in {"add_user", "remove_user"}) => ConnectedView']_vars

\* C4: when redistribute() returns, every AP's connected_clients is the set
\* of the users assigned to it and its load is the sum of their airtime.
C4_Bookkeeping ==
    last = "redistribute" =>
        \A j \in 1..Len(aps) :
            /\ ConnectedSet(j) = {clients[i].id : i \in AssignedTo(j)}
            /\ aps[j].load = 100 * AirtimeOf(j)

\* redistribute() has moved a user
C4_Witness == last = "redistribute" /\ glog.moves # << >>

\* some user still assigned to AP j has a qualifying alternative AP
HasMovableUser(j) ==
    \E i \in AssignedTo(j) : \E k \in 1..Len(aps) : Qualifies(clients[i], aps[k])

\* C5 (as claimed): when redistribute() returns, an AP that was overloaded at
\* detection has load <= capacity or no user connected to it has a qualifying
\* alternative AP.
C5_NoMovableUserLeft ==
    last = "redistribute" =>
        \A n \in 1..Len(glog.overloaded) :
            LET j == ApIndex(aps, glog.overloaded[n])
            IN  ~LoadAbove(aps[j]) \/ ~HasMovableUser(j)

\* C6 (as claimed): of two users popped for the same overloaded AP, the one
\* popped first does not have the less negative RSSI.
C6_WeakestFirst ==
    \A n, m \in 1..Len(glog.pops) :
        (n < m /\ glog.pops[n].ap = glog.pops[m].ap) =>
            glog.pops[n].RSSI <= glog.pops[m].RSSI

\* C7 (as claimed): the load the next step()'s overload detection evaluates
\* for an AP includes the amount the AP-killer added to it.
C7_InjectedLoadSeen ==
    [][(last' = "step" /\ glog'.ran) =>
          \A j \in 1..Len(aps) :
              aps[j].id \in glog.hit => glog'.detect[j] >= 100 * KILLER_LOAD]_vars

\* C8 (as claimed): after the fallback of apply_mcmf every user's assigned_ap
\* is the one redistribute() left it with.
C8_GreedyResultKept ==
    last = "apply_mcmf_fallback" =>
        \A i \in 1..Len(clients) : clients[i].assigned_ap = glog.assigned[i]

\* C9 (as claimed): a snapshot served while a tick runs equals the snapshot
\* of the state at the entry or at the end of that tick.
C9_NoTornSnapshot ==
    (host.mid # << >> /\ host.post # << >>) =>
        (host.mid = host.pre \/ host.mid = host.post)

\* C10 (as claimed): while step() is in progress only step() changes the
\* users, the APs, the assignments, the band and the AP-killer: a request
\* served meanwhile leaves them alone.
C10_SingleWriter ==
    [][(pc # "idle" /\ host'.calls # host.calls) =>
          UNCHANGED <<aps, clients, assignments, current_band, ap_killer>>]_vars

\* no AP is overloaded once the bookkeeping pass has recomputed the loads
NoneOverloaded ==
    \A j \in 1..Len(aps) :
        Bookkeeping(aps, clients, Indices(clients))[j].load
            <= dynamic_capacity(Bookkeeping(aps, clients, Indices(clients))[j])

\* C11: a redistribute() that starts with no AP overloaded after bookkeeping
\* changes no user's assigned_ap, and leaves no AP overloaded for the next call.
C11_NoOverloadNoChange ==
    [][(last' \in {"redistribute", "redistribute_again"} /\ NoneOverloaded) =>
          /\ \A i \in 1..Len(clients) : clients'[i].assigned_ap = clients[i].assigned_ap
          /\ NoneOverloaded']_vars

\* redistribute() has run twice on assigned users and found nothing overloaded
C11_Witness ==
    /\ last = "redistribute_again"
    /\ glog.overloaded = << >>
    /\ glog.pops = << >>
    /\ \E i \in 1..Len(clients) : clients[i].assigned_ap # None

\* sum of the loads of an AP list
TotalLoad(apl) == SeqSum([j \in 1..Len(apl) |-> apl[j].load])

\* C12: the loads redistribute() leaves add up to the loads of its bookkeeping
\* pass, and a user that was assigned on entry is assigned on return.
C12_DemandConserved ==
    [][(last' \in {"redistribute", "redistribute_again"}) =>
          /\ TotalLoad(aps') = TotalLoad(Bookkeeping(aps, clients, Indices(clients)))
          /\ \A i \in 1..Len(clients) :
                clients[i].assigned_ap # None => clients'[i].assigned_ap # None]_vars

\* redistribute() has moved two users
C12_Witness == last = "redistribute" /\ Len(glog.moves) >= 2

\* the AP of the list a user is assigned to is on the user's floor
OnOwnFloor(u, apl) ==
    u.assigned_ap = None
    \/ (ApIndex(apl, u.assigned_ap) # 0 /\ apl[ApIndex(apl, u.assigned_ap)].floor = u.floor)

\* the scenario of tests/test_greedy.py: every user is assigned to the first
\* AP of the list, which is thereby overloaded
AllOnFirstAp ==
    /\ last = "input"
    /\ \A i \in 1..Len(clients) : clients[i].assigned_ap = aps[1].id
    /\ ~NoneOverloaded

\* C13 (as claimed): when redistribute() is run on the scenario where all users
\* are assigned to one AP, no user is left assigned to an AP of another floor.
C13_ScenarioFloorSafe ==
    [][(AllOnFirstAp /\ last' = "redistribute") =>
          \A i \in 1..Len(clients) : OnOwnFloor(clients'[i], aps')]_vars

\* the user of the snapshot with id uid
UserIds == {clients[i].id : i \in 1..Len(clients)}

\* C15: the mapping run() returns has one entry for every user of the snapshot:
\* its keys are exactly the user ids, every value is an AP id or none, and a
\* user that could not be matched (no AP on its floor) is mapped to none
C15_EveryUserHasEntry ==
    last = "run_returned" =>
        /\ DOMAIN assignments = UserIds
        /\ \A uid \in UserIds :
              \/ assignments[uid] = None
              \/ \E j \in 1..Len(aps) : aps[j].id = assignments[uid]
        /\ \A i \in 1..Len(clients) :
              (\A j \in 1..Len(aps) : aps[j].floor # clients[i].floor)
                 => assignments[clients[i].id] = None

\* a returned mapping with a matched and an unmatched user
C15_Witness ==
    /\ last = "run_returned"
    /\ \E i \in 1..Len(clients) :
          /\ \A j \in 1..Len(aps) : aps[j].floor # clients[i].floor
          /\ clients[i].id \in DOMAIN assignments
          /\ assignments[clients[i].id] = None
    /\ \E uid \in DOMAIN assignments : assignments[uid] # None

\* no user of the snapshot has an AP on its floor
NoUserMatchable ==
    \A i \in 1..Len(clients) : \A j \in 1..Len(aps) : aps[j].floor # clients[i].floor

\* C17: run() raises exactly when the solver failed, and then delivers no
\* mapping; when the solver succeeded and no user could be matched (no AP on
\* any user's floor) run() returns normally with every user mapped to none
C17_FailureRaises ==
    last \in {"run_returned", "run_raised"} =>
        /\ glog.solver = "failed" <=> last = "run_raised"
        /\ last = "run_raised" => assignments = EmptyDict
        /\ (glog.solver = "solved" /\ NoUserMatchable) =>
              /\ last = "run_returned"
              /\ DOMAIN assignments = UserIds
              /\ \A uid \in UserIds : assignments[uid] = None

\* a normal return with nobody matched, on a snapshot of several users
C17_Witness ==
    /\ last = "run_returned"
    /\ glog.solver = "solved"
    /\ NoUserMatchable
    /\ Len(clients) >= 2
    /\ \A uid \in UserIds : assignments[uid] = None

\* the user counts apply_mcmf sees after its update_rssi and update_ap_load
RawCounts ==
    update_ap_load(aps, update_rssi(clients, aps, current_band))

\* C18: a call of apply_mcmf that finds an AP with more users than its
\* max_users does not invoke the solver: it runs redistribute() and returns,
\* leaving the assignments dict as it was
C18_GuardSkipsSolver ==
    [][(/\ last = "input"
        /\ last' \in {"apply_mcmf_guard", "apply_mcmf_solved", "apply_mcmf_fallback"}
        /\ \E j \in 1..Len(aps) : RawCounts[j].user_count > aps[j].max_users)
       => /\ last' = "apply_mcmf_guard"
          /\ glog'.solver = "idle"
          /\ glog'.ran
          /\ assignments' = assignments]_vars

\* the guard fired on an AP that redistribute() then found overloaded
C18_Witness ==
    /\ last = "apply_mcmf_guard"
    /\ glog.solver = "idle"
    /\ glog.ran
    /\ glog.overloaded # << >>
    /\ \E j \in 1..Len(aps) : aps[j].user_count > aps[j].max_users

\* C19: a step() taken at a tick that is a multiple of MCMF_EVERY_N_TICKS calls
\* apply_mcmf, a step() taken at any other tick calls apply_greedy
C19_McmfEveryNthTick ==
    [][last' = "step" =>
          glog'.balancer = IF tick % MCMF_EVERY_N_TICKS = 0
                           THEN "apply_mcmf" ELSE "apply_greedy"]_vars

C21_StepReturnsNormally == last # "step_raised"

\* the numeric fields of a snapshot's AP entry, user entry, AP-killer entry
ApEntryFinite(e) ==
    /\ IsFinite(e.x) /\ IsFinite(e.y) /\ IsFinite(e.gx) /\ IsFinite(e.gy)
    /\ IsFinite(e.interference_score) /\ IsFinite(e.airtime_capacity)
    /\ IsFinite(e.max_users) /\ IsFinite(e.coverage_radius)
    /\ IsFinite(e.user_count) /\ IsFinite(e.load)

ClientEntryFinite(e) ==
    /\ IsFinite(e.x) /\ IsFinite(e.y) /\ IsFinite(e.gx) /\ IsFinite(e.gy)
    /\ IsFinite(e.airtime_usage) /\ IsFinite(e.RSSI)
    /\ e.id = "AP-KILLER" => (~e.vx_is_str /\ IsFinite(e.vx) /\ IsFinite(e.vy))

\* C22: every numeric field of every AP entry and every client entry of the
\* snapshot get_state() returns, the AP-killer's entry included, is a finite
\* number
C22_SnapshotFinite ==
    (last = "get_state" /\ host.post # << >>) =>
        /\ \A j \in 1..Len(host.post[1].aps) : ApEntryFinite(host.post[1].aps[j])
        /\ \A n \in 1..Len(host.post[1].clients) : ClientEntryFinite(host.post[1].clients[n])

\* the APs on u's floor within the current band's coverage radius
InCoverage(u) ==
    {j \in 1..Len(aps) :
        /\ aps[j].floor = u.floor
        /\ D2(u.x, u.y, aps[j].x, aps[j].y)
              <= band_coverage(current_band) * band_coverage(current_band)}

\* C23: after update_rssi, every user with no AP of its floor within the
\* coverage radius has assigned_ap, connected_ap and nearest_ap none and RSSI
\* -95, whatever assignment it held before
C23_OutOfCoverageDisconnected ==
    [][last' = "update_rssi" =>
          \A i \in 1..Len(clients) :
             InCoverage(clients[i]) = {} =>
                /\ clients'[i].assigned_ap = None
                /\ clients'[i].connected_ap = None
                /\ clients'[i].nearest_ap = None
                /\ clients'[i].RSSI = -95]_vars

\* a user that held an assignment, on a floor with an AP, out of coverage
C23_Witness ==
    /\ last = "update_rssi"
    /\ \E i \in 1..Len(clients) :
          /\ InCoverage(clients[i]) = {}
          /\ \E j \in 1..Len(aps) : aps[j].floor = clients[i].floor
          /\ clients[i].assigned_ap = None
          /\ \E n \in 1..Len(host.pre[1].clients) :
                /\ host.pre[1].clients[n].id = clients[i].id
                /\ host.pre[1].clients[n].assigned_ap # None

\* the edges of the recorded graph from a to b
EdgesBetween(a, b) == {e \in glog.graph : e.from = a /\ e.to = b}

\* C24: build_graph() has one edge user -> AP, of capacity 1 and weight
\* compute_cost(user, ap), for exactly the pairs on the same floor, none for a
\* pair on different floors, and one edge S -> user of capacity 1 and weight 0
\* for every user
C24_SameFloorEdgesOnly ==
    last = "build_graph" =>
        /\ \A i \in 1..Len(clients) :
              EdgesBetween("S", clients[i].id)
                 = {[from |-> "S", to |-> clients[i].id, capacity |-> 1, weight |-> 0]}
        /\ \A i \in 1..Len(clients) : \A j \in 1..Len(aps) :
              EdgesBetween(clients[i].id, aps[j].id) =
                 IF aps[j].floor = clients[i].floor
                 THEN {[from |-> clients[i].id, to |-> aps[j].id, capacity |-> 1,
                        weight |-> compute_cost(clients[i], aps[j])]}
                 ELSE {}

\* a graph over users of two floors, one of them with several APs
C24_Witness ==
    /\ last = "build_graph"
    /\ \E i, k \in 1..Len(clients) :
          /\ clients[i].floor = 1
          /\ clients[k].floor = 2
          /\ Cardinality({e \in glog.graph : e.from = clients[i].id}) = 3
          /\ Cardinality({e \in glog.graph : e.from = clients[k].id}) = 1

\* C25: in the graph build_graph() returns and in the graph run() solves,
\* every AP has exactly one edge to T, of weight 0 and of capacity
\* dynamic_capacity(ap) rounded down, at least 1
C25_SinkEdges ==
    last \in {"build_graph", "solved_graph"} =>
        \A j \in 1..Len(aps) :
           EdgesBetween(aps[j].id, "T") =
              {[from |-> aps[j].id, to |-> "T",
                capacity |-> Max(1, dynamic_capacity(aps[j]) \div 100), weight |-> 0]}

\* the push that carried payload uid
PushIndex(uid) == CHOOSE n \in 1..MaxPushes : UserId(n) = uid

\* C26: a pop on a queue that is not empty removes and returns the payload of
\* the entry with the smallest priority among those queued, among equal
\* priorities the one pushed earliest; and no two queued entries agree in both
\* priority and sequence number, so no comparison ever reaches the payloads
C26_StableMinimum ==
    [][/\ (last' = "pop" /\ queue.pq.heap # << >>) =>
             \E k \in 1..Len(queue.pq.heap) :
                /\ queue'.returned = queue.pq.heap[k].user
                /\ Len(queue'.pq.heap) = Len(queue.pq.heap) - 1
                /\ \A m \in 1..Len(queue'.pq.heap) :
                      queue'.pq.heap[m].user # queue.pq.heap[k].user
                /\ \A m \in 1..Len(queue.pq.heap) :
                      \/ queue.pq.heap[k].priority < queue.pq.heap[m].priority
                      \/ /\ queue.pq.heap[k].priority = queue.pq.heap[m].priority
                         /\ PushIndex(queue.pq.heap[k].user) <= PushIndex(queue.pq.heap[m].user)
       /\ \A k, m \in 1..Len(queue'.pq.heap) :
             k # m => \/ queue'.pq.heap[k].priority # queue'.pq.heap[m].priority
                      \/ queue'.pq.heap[k].count # queue'.pq.heap[m].count]_vars

\* two pops done after four pushes of one priority, two entries left
C26_Witness ==
    /\ last = "pop"
    /\ queue.pushed = 4
    /\ queue.returned = UserId(2)
    /\ Len(queue.pq.heap) = 2
    /\ queue.pq.heap[1].priority = queue.pq.heap[2].priority

\* C27: a pop on an empty queue returns none and leaves the heap and the
\* sequence counter as they were
C27_PopOnEmpty ==
    [][(last' = "pop" /\ queue.pq.heap = << >>) =>
          /\ queue'.returned = None
          /\ queue'.pq = queue.pq]_vars

\* an emptied queue popped once more, then pushed to again
C27_Witness ==
    /\ last = "push"
    /\ queue.returned = None
    /\ Len(queue.pq.heap) = 1
    /\ queue.pq.counter >= 2

\* C28: once a step has completed, after every step and every add_user_to_floor,
\* every user's RSSI is a whole number of dB from -95 to -40
C28_RssiInRange ==
    tick > 0 => \A i \in 1..Len(clients) : clients[i].RSSI \in RSSI_FLOOR..RSSI_CEIL

\* after a step that clamped a user standing at its AP to -40, a user is added
C28_Witness ==
    /\ tick > 0
    /\ last = "add_user"
    /\ \E i \in 1..Len(clients) :
          /\ clients[i].RSSI = RSSI_CEIL
          /\ \E j \in 1..Len(aps) :
                aps[j].id = clients[i].assigned_ap /\ aps[j].x = clients[i].x
    /\ \E i \in 1..Len(clients) : clients[i].RSSI = RSSI_FLOOR /\ clients[i].assigned_ap = None

\* C29: for a fixed base capacity, dynamic_capacity(ap) is never below the base
\* capacity, and it does not decrease when the AP's user count grows
C29_CapacityMonotone ==
    [][last' = "dynamic_capacity" =>
          \A j \in 1..Len(aps') :
             /\ glog'.capacity[j] >= 100 * aps'[j].airtime_capacity
             /\ (/\ last = "dynamic_capacity"
                 /\ aps'[j].airtime_capacity = aps[j].airtime_capacity
                 /\ aps'[j].user_count >= aps[j].user_count)
                => glog'.capacity[j] >= glog.capacity[j]]_vars

\* an AP with three or more users whose capacity is boosted above its base
C29_Witness ==
    /\ last = "dynamic_capacity"
    /\ aps[1].user_count >= 3
    /\ glog.capacity[1] > 100 * aps[1].airtime_capacity

\* C30: in update_rssi, a user with at least one AP of its floor within the
\* coverage radius is not disconnected: assigned_ap, connected_ap and
\* nearest_ap all name an in-coverage AP of its floor whose estimated RSSI is
\* the strongest among the APs in coverage
C30_StrongestInCoverage ==
    [][last' = "update_rssi" =>
          \A i \in 1..Len(clients) :
             InCoverage(clients[i]) # {} =>
                \E j \in InCoverage(clients[i]) :
                   /\ clients'[i].assigned_ap = aps[j].id
                   /\ clients'[i].connected_ap = aps[j].id
                   /\ clients'[i].nearest_ap = aps[j].id
                   /\ \A k \in InCoverage(clients[i]) :
                         BandRssi(clients[i], aps[j], current_band)
                            >= BandRssi(clients[i], aps[k], current_band)]_vars

\* load < dynamic_capacity(ap), on the numbers of the model: the capacity is
\* kept rounded down, and is exact only without a logarithm term
SpareCapacity(load, cap, exact) == IF exact THEN load < cap ELSE load <= cap

\* the candidates of a user as the specification words them: the APs of its
\* floor, other than its current AP, with load < dynamic capacity, covering it
Candidates(u) ==
    {j \in 1..Len(aps) :
        /\ aps[j].floor = u.floor
        /\ aps[j].id # u.assigned_ap
        /\ SpareCapacity(aps[j].load, dynamic_capacity(aps[j]), CapacityIsExact(aps[j]))
        /\ D2(u.x, u.y, aps[j].x, aps[j].y) <= aps[j].coverage_radius * aps[j].coverage_radius}

\* C31: find_alternative_ap(user) returns none only when the user has no
\* candidate: with some AP of its floor, other than its current one, that has
\* load < dynamic capacity and covers the user, an AP is returned
C31_NoneOnlyWithoutCandidate ==
    last = "find_alternative_ap" =>
        (Candidates(clients[1]) # {} => glog.found # None)

\* C32: the AP find_alternative_ap(user) returns is the candidate nearest to
\* the user (strongest estimated RSSI), the first in the AP list among the
\* nearest ones
C32_NearestCandidateFirst ==
    (last = "find_alternative_ap" /\ Candidates(clients[1]) # {}) =>
        \E j \in Candidates(clients[1]) :
           /\ glog.found = aps[j].id
           /\ \A k \in Candidates(clients[1]) :
                 LET dj == D2(clients[1].x, clients[1].y, aps[j].x, aps[j].y)
                     dk == D2(clients[1].x, clients[1].y, aps[k].x, aps[k].y)
                 IN  dj < dk \/ (dj = dk /\ j <= k)

\* C33: every move of redistribute() takes the user from the AP being
\* processed, whose load exceeds its dynamic capacity right before the move,
\* to an AP on the user's floor, other than its current AP, whose load was
\* below its dynamic capacity right before the move and which covers the user
C33_MovesAreQualified ==
    last \in {"redistribute", "redistribute_again"} =>
        \A n \in 1..Len(glog.moves) :
           LET m == glog.moves[n]
           IN  /\ m.from = m.from_ap
               /\ m.from_load > m.from_cap
               /\ m.to_floor = m.floor
               /\ m.to # m.from
               /\ SpareCapacity(m.to_load, m.to_cap, m.to_exact)
               /\ m.dist2 <= m.radius * m.radius

\* a user moved past a nearer AP of its floor (one that was full or did not
\* cover it) to a farther one
C33_Witness ==
    /\ last = "redistribute"
    /\ \E n \in 1..Len(glog.moves) : \E k \in 1..Len(aps) :
          LET m == glog.moves[n]
              u == clients[m.index]
          IN  /\ aps[k].floor = m.floor
              /\ aps[k].id \notin {m.from, m.to}
              /\ D2(u.x, u.y, aps[k].x, aps[k].y) < m.dist2

\* C34: step() changes of a user nothing but position, velocity, RSSI and the
\* assignment fields (so never id, floor or airtime_usage), and of an AP
\* nothing but load, user_count and connected_clients (so never id, floor,
\* position or airtime_capacity); it adds and removes no user and no AP
C34_StepFrame ==
    [][last' \in {"step", "step_caught", "step_raised"} =>
          /\ Len(clients') = Len(clients)
          /\ \A i \in 1..Len(clients) :
                clients'[i] = [clients[i] EXCEPT
                                 !.x = clients'[i].x, !.y = clients'[i].y,
                                 !.vx = clients'[i].vx, !.vy = clients'[i].vy,
                                 !.RSSI = clients'[i].RSSI,
                                 !.nearest_ap = clients'[i].nearest_ap,
                                 !.assigned_ap = clients'[i].assigned_ap,
                                 !.connected_ap = clients'[i].connected_ap]
          /\ Len(aps') = Len(aps)
          /\ \A j \in 1..Len(aps) :
                aps'[j] = [aps[j] EXCEPT
                             !.load = aps'[j].load,
                             !.user_count = aps'[j].user_count,
                             !.connected_clients = aps'[j].connected_clients]]_vars

\* a step in which the balancer moved a user and the AP-killer hit an AP
C34_Witness ==
    /\ last = "step"
    /\ glog.moves # << >>
    /\ glog.hit # {}

\* the number of users that carry the id
Carriers(cl, id) == Cardinality({i \in 1..Len(cl) : cl[i].id = id})

\* the ids users.json and add_user_to_floor hand out
HandedOut == {InitClients[i].id : i \in 1..Len(InitClients)} \cup AddedIds(MaxAdded)

\* the id is in none of the three places
Gone(id) ==
    /\ Carriers(clients, id) = 0
    /\ id \notin DOMAIN assignments
    /\ \A j \in 1..Len(aps) : ~InSeq(id, aps[j].connected_clients)

\* C35 (as claimed): when remove_user_from_floor has removed a user, the
\* user's id is in no AP's connected_clients, not in the assignments mapping
\* and not in the user list; a step() run on an engine in which an id is in
\* none of the three leaves it in none of them; and no AP has a negative load
C35_RemovedStaysGone ==
    [][/\ \A id \in HandedOut :
             /\ (last' = "remove_user" /\ Carriers(clients', id) < Carriers(clients, id))
                   => Gone(id)'
             /\ (Gone(id) /\ last' \in {"step", "step_caught", "step_raised"})
                   => Gone(id)'
       /\ \A j \in 1..Len(aps') : aps'[j].load >= 0]_vars

\* C36: redistribute() never turns an AP that was not overloaded after the
\* bookkeeping pass into an overloaded one: when it returns, every AP outside
\* the detected list has load <= its dynamic capacity
C36_NoNewOverload ==
    last = "redistribute" =>
        \A j \in 1..Len(aps) :
           (~InSeq(aps[j].id, glog.overloaded)) => ~LoadAbove(aps[j])

\* C37: within one redistribute() call no user is moved twice, also when the
\* AP it was moved to is in the list of overloaded APs
C37_MovedAtMostOnce ==
    last \in {"redistribute", "redistribute_again"} =>
        \A n, m \in 1..Len(glog.moves) :
           n # m => glog.moves[n].index # glog.moves[m].index

\* a user was moved to an AP of the overloaded list
C37_Witness ==
    /\ last = "redistribute"
    /\ Len(glog.overloaded) >= 2
    /\ \E n \in 1..Len(glog.moves) : InSeq(glog.moves[n].to, glog.overloaded)
\* the number of users whose assigned_ap names the j-th AP
AssignedCount(j) ==
    Cardinality({i \in 1..Len(clients) : clients[i].assigned_ap = aps[j].id})

\* C38: at the end of every completed step() each AP's user_count is the
\* number of users whose assigned_ap is that AP
C38_UserCountIsAssignedCount ==
    last = "step" => \A j \in 1..Len(aps) : aps[j].user_count = AssignedCount(j)

\* the number of pops made from the queue of the n-th processed AP
PopsOf(n) ==
    Cardinality({m \in 1..Len(glog.pops) : glog.pops[m].ap = glog.queued[n].ap})

\* C39: a redistribute() call ends having processed each AP of the overloaded
\* list once, in the list's order, with one queue and one exit of the while
\* loop per AP; the pops made for an AP are at most the users whose
\* assigned_ap was that AP when its queue was built
C39_BoundedEviction ==
    last \in {"redistribute", "redistribute_again"} =>
        /\ Len(glog.queued) = Len(glog.overloaded)
        /\ Len(glog.stops) = Len(glog.overloaded)
        /\ \A n \in 1..Len(glog.overloaded) :
              /\ glog.queued[n].ap = glog.overloaded[n]
              /\ glog.stops[n].ap = glog.overloaded[n]
              /\ \A m \in 1..Len(glog.overloaded) :
                    glog.overloaded[m] = glog.overloaded[n] => m = n
              /\ PopsOf(n) <= glog.queued[n].size
              /\ glog.queued[n].size <= glog.queued[n].connected

\* two overloaded APs processed in one call: the queue of one emptied with
\* every user popped, the other left after fewer pops than it had users
C39_Witness ==
    /\ last \in {"redistribute", "redistribute_again"}
    /\ Len(glog.overloaded) >= 2
    /\ \E n \in 1..Len(glog.queued) :
          PopsOf(n) = glog.queued[n].connected /\ PopsOf(n) >= 1
    /\ \E n \in 1..Len(glog.queued) :
          PopsOf(n) < glog.queued[n].connected /\ PopsOf(n) >= 1

\* the APs (by id) that a redistribute() call found overloaded, read from the
\* log it leaves
OverloadedAtDetection(log) == {log.overloaded[n] : n \in 1..Len(log.overloaded)}

\* C40: a redistribute() call keeps the list of users, changes no user's
\* RSSI, floor or airtime_usage, leaves every unassigned user unassigned, and
\* leaves the assigned_ap of every user whose AP was not overloaded at
\* detection as it was
C40_RedistributeFrame ==
    [][last' \in {"redistribute", "redistribute_again"} =>
        /\ Len(clients') = Len(clients)
        /\ \A i \in 1..Len(clients) :
              /\ clients'[i].id = clients[i].id
              /\ clients'[i].RSSI = clients[i].RSSI
              /\ clients'[i].floor = clients[i].floor
              /\ clients'[i].airtime_usage = clients[i].airtime_usage
              /\ clients[i].assigned_ap = None => clients'[i].assigned_ap = None
              /\ clients[i].assigned_ap \notin OverloadedAtDetection(glog')
                    => clients'[i].assigned_ap = clients[i].assigned_ap]_vars

\* a call that moved a user while another user was unassigned and a third
\* was on an AP that was not overloaded
C40_Witness ==
    /\ last = "redistribute"
    /\ glog.moves # << >>
    /\ \E i \in 1..Len(clients) : clients[i].assigned_ap = None
    /\ \E i \in 1..Len(clients) :
          /\ clients[i].assigned_ap # None
          /\ clients[i].assigned_ap \notin OverloadedAtDetection(glog)
          /\ \A n \in 1..Len(glog.moves) : glog.moves[n].index # i

====
